---- MODULE Spec2Model ----
(***************************************************************************)
(* The combat simulation of Duel: GameSystem (match controller),           *)
(* GameActorGroup, PlayerActor (state machine and AI), the two arrow       *)
(* variants, and the part of the p5 driver that starts a match.            *)
(*                                                                         *)
(* Numbers.  The source computes in IEEE doubles.  Here every length,      *)
(* coordinate, speed and velocity component is an integer count of 1/Unit  *)
(* of a pixel (Unit = 20: 0.25, 0.92 * 2.5 and 50/60 * 6 are then exact    *)
(* or truncated at 0.05).  Products are rounded toward zero.  An angle is  *)
(* kept as the direction it denotes: a vector of length DirScale, so that  *)
(* cos(a) and sin(a) are its two components divided by DirScale.           *)
(* rotationAngle (a sprite spin no decision reads) and fillColor are not   *)
(* part of the state.  Math.random() is a choice among randomSteps evenly  *)
(* spaced values k / randomSteps; a test Math.random() < c with 0 < c < 1  *)
(* is a choice of either outcome.                                          *)
(***************************************************************************)
EXTENDS Integers, Sequences, FiniteSets, TLC

VARIABLES
  gameState,        \* GameSystem.gameState: "START", "PLAYING", "GAME_OVER"
  frameCount,       \* GameSystem.frameCount
  countdownNumber,  \* GameSystem.countdownNumber
  screenShake,      \* GameSystem.screenShake, in 1/ShakeUnit
  gameMessage,      \* GameSystem.gameMessage
  messageTimer,     \* GameSystem.messageTimer
  isDemoMode,       \* GameSystem.isDemoMode
  myGroup,          \* GameSystem.myGroup (white)
  otherGroup,       \* GameSystem.otherGroup (black)
  isSpacePressed,   \* KeyInput.isSpacePressed
  nextArrowId,      \* identity of the next arrow object constructed in this match
  lastTick,         \* what the last step did: its kind, the keys pressed and read, its events, the frames of hits and shots
  ticksLeft,        \* ticks outside the countdown still to be explored
  randomSteps,      \* the number of values Math.random() takes in this run
  keyInput,         \* the KeyInput of the driver, but for isSpacePressed
  zJustTicks        \* the draw() calls of the current Z press that found isZJustPressed()

vars == <<gameState, frameCount, countdownNumber, screenShake, gameMessage,
          messageTimer, isDemoMode, myGroup, otherGroup, isSpacePressed,
          nextArrowId, lastTick, ticksLeft, randomSteps, keyInput, zJustTicks>>

-----------------------------------------------------------------------------
(* Bounds of the exploration *)

\* ticks explored in PLAYING and GAME_OVER from a constructed match
MaxPlayTicks == 2
\* ticks explored in PLAYING and GAME_OVER after the opening of a duel
MaxDuelTicks == 6
\* Math.random() takes the values k / RandomSteps, k in 0 .. RandomSteps - 1
RandomSteps == 2
\* ticks explored in PLAYING and GAME_OVER of a bout
MaxBoutTicks == 66
\* the values Math.random() takes in a bout and in the demo match
BoutRandomSteps == 1
\* ticks explored in PLAYING of the demo match
MaxDemoTicks == 145
\* the count at which zPressedFrameCount and xPressedFrameCount are kept
HeldCap == 7
\* the frame of the countdown from which the keyboard is explored
KeysFromFrame == 173
\* ticks explored in PLAYING and GAME_OVER with the keyboard explored
MaxKeyTicks == 3
\* ticks explored in PLAYING of a flight
MaxFlightTicks == 100
\* the ticks an arrow of a flight is given to leave its collection
FlightTicks == 60
\* the arrows of a flight that are followed
MaxArrows == 12

-----------------------------------------------------------------------------
(* Number representation *)

Unit == 20
DirScale == 1000
ShakeUnit == 6

Abs(a) == IF a < 0 THEN -a ELSE a
Sign(a) == IF a > 0 THEN 1 ELSE IF a < 0 THEN -1 ELSE 0
Min(a, b) == IF a < b THEN a ELSE b
Max(a, b) == IF a > b THEN a ELSE b
TruncDiv(a, b) == IF a >= 0 THEN a \div b ELSE -((-a) \div b)

RECURSIVE SqrtDown(_, _)
SqrtDown(n, x) ==
  LET y == (x + n \div x) \div 2
  IN  IF y >= x THEN x ELSE SqrtDown(n, y)

\* Math.sqrt, rounded down
Sqrt(n) == IF n <= 0 THEN 0 ELSE SqrtDown(n, 46340)

-----------------------------------------------------------------------------
(* Vector2 *)

Vec(x, y) == <<x, y>>
VAdd(a, b) == <<a[1] + b[1], a[2] + b[2]>>
VSub(a, b) == <<a[1] - b[1], a[2] - b[2]>>
\* Vector2.multiply by the rational num / den
VMul(a, num, den) == <<TruncDiv(a[1] * num, den), TruncDiv(a[2] * num, den)>>
MagSq(a) == a[1] * a[1] + a[2] * a[2]
DistanceSq(a, b) == MagSq(VSub(a, b))

\* Vector2.angle: atan2(dy, dx) from a to b, as a direction; atan2(0, 0) = 0
Angle(a, b) ==
  LET d == VSub(b, a)
      m == Sqrt(MagSq(d))
  IN  IF m = 0 THEN <<DirScale, 0>>
      ELSE <<TruncDiv(d[1] * DirScale, m), TruncDiv(d[2] * DirScale, m)>>

\* Vector2.fromAngle(angle, magnitude)
FromAngle(dir, magnitude) ==
  <<TruncDiv(dir[1] * magnitude, DirScale), TruncDiv(dir[2] * magnitude, DirScale)>>

\* angle + quarter * PI / 2
Turn(dir, quarter) ==
  CASE quarter = 0 -> dir
    [] quarter = 1 -> <<-dir[2], dir[1]>>
    [] quarter = -1 -> <<dir[2], -dir[1]>>
    [] OTHER -> <<-dir[1], -dir[2]>>

-----------------------------------------------------------------------------
(* Actor.ts: bodies, players, arrows *)

CANVAS_SIZE == 640 * Unit
halfBodySize == 16 * Unit
PlayerRadius == 16 * Unit
terminalSpeed == 8 * Unit

PlayerStates == {"MOVE", "DRAW_SHORTBOW", "DRAW_LONGBOW", "DAMAGED"}

\* new PlayerActor(x, y, fillColor, isHuman)
NewPlayerActor(x, y, human) ==
  [ null |-> FALSE, isHuman |-> human,
    position |-> <<x * Unit, y * Unit>>, velocity |-> <<0, 0>>,
    collisionRadius |-> PlayerRadius,
    state |-> "MOVE", aimAngle |-> <<DirScale, 0>>,
    chargedFrameCount |-> 0, damageRemainingFrameCount |-> 0,
    aiFrameCounter |-> 0, aiLastShotFrame |-> 0,
    aiPlanType |-> "move", aiMoveTarget |-> <<320 * Unit, 320 * Unit>> ]

\* new NullPlayerActor(): an AbstractPlayerActor at (0, 0) whose isNull() is true
NullPlayerActor ==
  [ null |-> TRUE, isHuman |-> FALSE,
    position |-> <<0, 0>>, velocity |-> <<0, 0>>,
    collisionRadius |-> PlayerRadius,
    state |-> "MOVE", aimAngle |-> <<DirScale, 0>>,
    chargedFrameCount |-> 0, damageRemainingFrameCount |-> 0,
    aiFrameCounter |-> 0, aiLastShotFrame |-> 0,
    aiPlanType |-> "move", aiMoveTarget |-> <<320 * Unit, 320 * Unit>> ]

IsDamaged(p) == ~p.null /\ p.state = "DAMAGED"

\* Actor.isCollided: distance < sum of the radii
IsCollided(a, b) ==
  DistanceSq(a.position, b.position) <
    (a.collisionRadius + b.collisionRadius) * (a.collisionRadius + b.collisionRadius)

\* hasCompletedLongBowCharge with the AI's threshold for every player
HasCompletedLongBowCharge_AIThreshold(p) ==
  p.chargedFrameCount >= 120

\* PlayerActor.hasCompletedLongBowCharge
HasCompletedLongBowCharge(p) ==
  p.chargedFrameCount >= (IF p.isHuman THEN 30 ELSE 120)

\* one axis of PlayerActor.addVelocity, acceleration in 1/Unit
AddVelocityAxis(v, acc, limit) ==
  LET raw == IF acc # 0 /\ Sign(acc) # Sign(v) THEN acc * 3 ELSE v + acc
  IN  Max(-limit, Min(limit, raw))

\* PlayerActor.addVelocity
AddVelocity(p, xAcc, yAcc) ==
  [p EXCEPT !.velocity = << AddVelocityAxis(p.velocity[1], xAcc, 10 * Unit),
                            AddVelocityAxis(p.velocity[2], yAcc, 7 * Unit) >>]

\* no boundary rule at all
ClampAxis_Free(x, v) == <<x, v>>

\* the boundary rule as a hard stop
ClampAxis_Stop(x, v) ==
  IF x < halfBodySize THEN <<halfBodySize, 0>>
  ELSE IF x > CANVAS_SIZE - halfBodySize
       THEN <<CANVAS_SIZE - halfBodySize, 0>>
       ELSE <<x, v>>

\* one axis of the boundary rule of PlayerActor.update: <<position, velocity>>
ClampAxis(x, v) ==
  IF x < halfBodySize THEN <<halfBodySize, TruncDiv(-v, 2)>>
  ELSE IF x > CANVAS_SIZE - halfBodySize
       THEN <<CANVAS_SIZE - halfBodySize, TruncDiv(-v, 2)>>
       ELSE <<x, v>>

\* the friction of PlayerActor.update
Friction(v) == TruncDiv(v * 92, 100)

\* PlayerActor.update (NullPlayerActor inherits Body.update)
PlayerUpdate(p) ==
  IF p.null THEN [p EXCEPT !.position = VAdd(p.position, p.velocity)]
  ELSE
    LET moved == VAdd(p.position, p.velocity)
        cx == ClampAxis(moved[1], p.velocity[1])
        cy == ClampAxis(moved[2], p.velocity[2])
    IN  [p EXCEPT !.position = <<cx[1], cy[1]>>,
                  !.velocity = <<Friction(cx[2]), Friction(cy[2])>>]

\* takeDamage that leaves the counter of a player already DAMAGED running
TakeDamage_KeepCounter(p, enemy) ==
  LET q == IF p.state = "DAMAGED" THEN p
           ELSE [p EXCEPT !.state = "DAMAGED", !.damageRemainingFrameCount = 18]
      away == Turn(Angle(p.position, enemy.position), 2)
  IN  IF p.isHuman THEN q
      ELSE [q EXCEPT !.velocity = VAdd(p.velocity, FromAngle(away, 5 * Unit))]

\* PlayerActor.takeDamage; enemy is this.group.enemyGroup.player
TakeDamage(p, enemy) ==
  LET q == [p EXCEPT !.state = "DAMAGED", !.damageRemainingFrameCount = 18]
      away == Turn(Angle(p.position, enemy.position), 2)
  IN  IF p.isHuman THEN q
      ELSE [q EXCEPT !.velocity = VAdd(p.velocity, FromAngle(away, 5 * Unit))]

\* updateState that counts the damage down by two
UpdateState_ByTwo(p) ==
  CASE p.state = "DAMAGED" ->
         [p EXCEPT !.damageRemainingFrameCount = Max(0, p.damageRemainingFrameCount - 2),
                   !.state = IF p.damageRemainingFrameCount - 2 <= 0
                             THEN "MOVE" ELSE "DAMAGED"]
    [] p.state = "DRAW_LONGBOW" ->
         [p EXCEPT !.chargedFrameCount = p.chargedFrameCount + 1]
    [] OTHER -> p

\* updateState that ends the damage one call early
UpdateState_Early(p) ==
  CASE p.state = "DAMAGED" ->
         [p EXCEPT !.damageRemainingFrameCount =
                     IF p.damageRemainingFrameCount <= 2 THEN 0
                     ELSE p.damageRemainingFrameCount - 1,
                   !.state = IF p.damageRemainingFrameCount <= 2
                             THEN "MOVE" ELSE "DAMAGED"]
    [] p.state = "DRAW_LONGBOW" ->
         [p EXCEPT !.chargedFrameCount = p.chargedFrameCount + 1]
    [] OTHER -> p

\* PlayerActor.updateState
UpdateState(p) ==
  CASE p.state = "DAMAGED" ->
         [p EXCEPT !.damageRemainingFrameCount = p.damageRemainingFrameCount - 1,
                   !.state = IF p.damageRemainingFrameCount - 1 <= 0
                             THEN "MOVE" ELSE "DAMAGED"]
    [] p.state = "DRAW_LONGBOW" ->
         [p EXCEPT !.chargedFrameCount = p.chargedFrameCount + 1]
    [] OTHER -> p

\* new ShortbowArrow(x, y), rotationAngle and setVelocity(angle, 24) as in fireShortbow
ShortbowArrow(id, pos, dir) ==
  [ id |-> id, lethal |-> FALSE, position |-> pos,
    directionAngle |-> dir, speed |-> 24 * Unit,
    velocity |-> FromAngle(dir, 24 * Unit),
    collisionRadius |-> 8 * Unit, halfLength |-> 20 * Unit ]

\* new LongbowArrow(x, y) and setVelocity(angle, 64) as in fireLongbow
LongbowArrow(id, pos, dir) ==
  [ id |-> id, lethal |-> TRUE, position |-> pos,
    directionAngle |-> dir, speed |-> 64 * Unit,
    velocity |-> FromAngle(dir, 64 * Unit),
    collisionRadius |-> 16 * Unit, halfLength |-> 16 * Unit ]

\* the test against the canvas itself, without the arrow's length
OutOfBounds_Canvas(a) ==
  \/ a.position[1] < 0
  \/ a.position[1] > CANVAS_SIZE
  \/ a.position[2] < 0
  \/ a.position[2] > CANVAS_SIZE

\* the test of AbstractArrowActor.update
OutOfBounds(a) ==
  \/ a.position[1] < -a.halfLength
  \/ a.position[1] > CANVAS_SIZE + a.halfLength
  \/ a.position[2] < -a.halfLength
  \/ a.position[2] > CANVAS_SIZE + a.halfLength

\* the update of a shortbow arrow whose speed decays towards 0
ArrowUpdate_Stall(a) ==
  IF a.lethal
  THEN [a EXCEPT !.position = VAdd(a.position, a.velocity)]
  ELSE LET v == FromAngle(a.directionAngle, a.speed)
       IN  [a EXCEPT !.velocity = v,
                     !.position = VAdd(a.position, v),
                     !.speed = a.speed + TruncDiv(0 - a.speed, 10)]

\* ShortbowArrow.update / LongbowArrow's inherited update, without the removal request
ArrowUpdate(a) ==
  IF a.lethal
  THEN [a EXCEPT !.position = VAdd(a.position, a.velocity)]
  ELSE LET v == FromAngle(a.directionAngle, a.speed)
       IN  [a EXCEPT !.velocity = v,
                     !.position = VAdd(a.position, v),
                     !.speed = a.speed + TruncDiv(terminalSpeed - a.speed, 10)]

-----------------------------------------------------------------------------
(* GameActorGroup *)

\* new GameActorGroup(player)
NewGroup(player) ==
  [ player |-> player, arrows |-> <<>>, arrowsToRemove |-> <<>>,
    lastAIShootFrame |-> 0 ]

\* GameActorGroup.addArrow
AddArrow(g, arrow) == [g EXCEPT !.arrows = Append(g.arrows, arrow)]

\* GameActorGroup.removeArrow
RemoveArrow(g, id) == [g EXCEPT !.arrowsToRemove = Append(g.arrowsToRemove, id)]

InSeq(x, s) == \E i \in 1 .. Len(s) : s[i] = x

\* update that forgets the removal requests without removing the arrows
GroupUpdate_KeepMarked(g) ==
  LET moved == [i \in 1 .. Len(g.arrows) |-> ArrowUpdate(g.arrows[i])]
      gone == SelectSeq(moved, OutOfBounds)
  IN  [g EXCEPT !.player = PlayerUpdate(g.player),
                !.arrows = moved,
                !.arrowsToRemove = [i \in 1 .. Len(gone) |-> gone[i].id]]

\* GameActorGroup.update
GroupUpdate(g) ==
  LET kept == SelectSeq(g.arrows, LAMBDA a : ~InSeq(a.id, g.arrowsToRemove))
      moved == [i \in 1 .. Len(kept) |-> ArrowUpdate(kept[i])]
      gone == SelectSeq(moved, OutOfBounds)
  IN  [g EXCEPT !.player = PlayerUpdate(g.player),
                !.arrows = moved,
                !.arrowsToRemove = [i \in 1 .. Len(gone) |-> gone[i].id]]

-----------------------------------------------------------------------------
(* PlayerActor: the AI.  An operator whose result depends on Math.random()  *)
(* yields the set of its possible results.                                  *)

Clamp(x, lo, hi) == Max(lo, Min(hi, x))
Dot(a, b) == a[1] * b[1] + a[2] * b[2]
Cross(a, b) == a[1] * b[2] - a[2] * b[1]

\* Math.random() * 280, in 1/Unit
RandomOffsets == { (280 * Unit * k) \div randomSteps : k \in 0 .. randomSteps - 1 }

\* PlayerActor.calculateTacticalPosition: the possible aiMoveTarget values
CalculateTacticalPosition(p, enemy) ==
  LET base(c) == IF c > 320 * Unit THEN 20 * Unit ELSE 340 * Unit
      extend(t) ==
        IF DistanceSq(t, p.position) < (150 * Unit) * (150 * Unit)
        THEN LET a == Angle(p.position, t)
                 far == VAdd(p.position, FromAngle(a, 200 * Unit))
             IN  << Clamp(far[1], 50 * Unit, 590 * Unit),
                    Clamp(far[2], 50 * Unit, 590 * Unit) >>
        ELSE t
  IN  { extend(<< ox + base(enemy.position[1]), oy + base(enemy.position[2]) >>) :
          ox \in RandomOffsets, oy \in RandomOffsets }

\* PlayerActor.calculateEscapeTarget: the possible aiMoveTarget values
CalculateEscapeTarget(p, arrow) ==
  { LET far == VAdd(p.position, FromAngle(Turn(arrow.directionAngle, q), 200 * Unit))
    IN  << Clamp(far[1], 50 * Unit, CANVAS_SIZE - 50 * Unit),
           Clamp(far[2], 50 * Unit, CANVAS_SIZE - 50 * Unit) >> : q \in {1, -1} }

\* the nearest-arrow loop of updateAIPlan: the index of nearestArrow, 0 for null
NearestArrow(p, arrows) ==
  LET d(i) == DistanceSq(p.position, arrows[i].position)
      near == { i \in 1 .. Len(arrows) : d(i) < 999999 * Unit * Unit }
      best == { i \in near : \A j \in near : d(i) < d(j) \/ (d(i) = d(j) /\ i <= j) }
  IN  IF best = {} THEN 0 ELSE CHOOSE i \in best : TRUE

WithPlan(p, plan, targets) ==
  { [p EXCEPT !.aiPlanType = plan, !.aiMoveTarget = t] : t \in targets }

\* PlayerActor.updateAIPlan
UpdateAIPlan(p, enemy, enemyArrows) ==
  IF IsDamaged(p)
  THEN WithPlan(p, "escape", CalculateTacticalPosition(p, enemy))
  ELSE
    LET n == NearestArrow(p, enemyArrows)
        enemyDistanceSq == DistanceSq(p.position, enemy.position)
        tactical == CalculateTacticalPosition(p, enemy)
        rest ==
          IF n # 0 /\ DistanceSq(p.position, enemyArrows[n].position)
                        < 40000 * Unit * Unit
          THEN WithPlan(p, "escape", CalculateEscapeTarget(p, enemyArrows[n]))
          ELSE IF enemyDistanceSq < 100000 * Unit * Unit
          THEN WithPlan(p, "move", tactical) \cup WithPlan(p, "jab", tactical)
          ELSE (IF enemyDistanceSq > (400 * Unit) * (400 * Unit)
                THEN WithPlan(p, "kill", tactical) ELSE {})
               \cup WithPlan(p, "move", tactical) \cup WithPlan(p, "jab", tactical)
    IN  (IF IsDamaged(enemy) THEN {[p EXCEPT !.aiPlanType = "kill"]} ELSE {}) \cup rest

\* PlayerActor.canSafelyAttack: the possible results
CanSafelyAttack(p, enemy, enemyArrows) ==
  IF DistanceSq(p.position, enemy.position) > (500 * Unit) * (500 * Unit)
  THEN {FALSE}
  ELSE IF \E i \in 1 .. Len(enemyArrows) :
            DistanceSq(p.position, enemyArrows[i].position) < 30000 * Unit * Unit
  THEN {FALSE}
  ELSE IF Dot(Angle(p.position, enemy.position),
              Angle(p.position, p.aiMoveTarget)) < 0
  THEN {TRUE}
  ELSE IF IsDamaged(enemy) THEN {TRUE}
  ELSE {TRUE, FALSE}

\* the shooting decision with the longbow attack of plan 'kill' that the
\* source has commented out
ShootDecision_Longbow(p, enemy, enemyArrows) ==
  LET framesSinceLastShot == p.aiFrameCounter - p.aiLastShotFrame
      draw == [p EXCEPT !.state = "DRAW_SHORTBOW",
                        !.aimAngle = Angle(p.position, enemy.position),
                        !.aiLastShotFrame = p.aiFrameCounter]
  IN  IF p.state # "MOVE" THEN {p}
      ELSE IF p.aiPlanType = "escape"
      THEN IF framesSinceLastShot > 15
           THEN { IF ok THEN draw ELSE p : ok \in CanSafelyAttack(p, enemy, enemyArrows) }
           ELSE {p}
      ELSE IF p.aiPlanType = "kill" /\ framesSinceLastShot > 30
              /\ DistanceSq(p.position, enemy.position) > (400 * Unit) * (400 * Unit)
      THEN {[draw EXCEPT !.state = "DRAW_LONGBOW", !.chargedFrameCount = 0]}
      ELSE IF p.aiPlanType = "jab" /\ framesSinceLastShot > 12
      THEN {draw}
      ELSE {p}

\* the shooting decision of executeAIPlan, taken in state MOVE
ShootDecision(p, enemy, enemyArrows) ==
  LET framesSinceLastShot == p.aiFrameCounter - p.aiLastShotFrame
      draw == [p EXCEPT !.state = "DRAW_SHORTBOW",
                        !.aimAngle = Angle(p.position, enemy.position),
                        !.aiLastShotFrame = p.aiFrameCounter]
  IN  IF p.state # "MOVE" THEN {p}
      ELSE IF p.aiPlanType = "escape"
      THEN IF framesSinceLastShot > 15
           THEN { IF ok THEN draw ELSE p : ok \in CanSafelyAttack(p, enemy, enemyArrows) }
           ELSE {p}
      ELSE IF p.aiPlanType = "kill" /\ framesSinceLastShot > 30
              /\ DistanceSq(p.position, enemy.position) > (400 * Unit) * (400 * Unit)
      THEN {draw}
      ELSE IF p.aiPlanType = "jab" /\ framesSinceLastShot > 12
      THEN {draw}
      ELSE {p}

\* aimAngle + turnDirection * 0.1 * 2 PI / 60: a turn by 0.6 degrees
TurnAim(dir, turnDirection) ==
  << TruncDiv(dir[1] * 99995 - turnDirection * dir[2] * 1047, 100000),
     TruncDiv(dir[2] * 99995 + turnDirection * dir[1] * 1047, 100000) >>

\* the DRAW_LONGBOW block of executeAIPlan: the possible
\* <<player, horizontalMove, verticalMove, returned early>>
LongbowBlock(p, enemy, h, v) ==
  IF p.state # "DRAW_LONGBOW" THEN { <<p, h, v, FALSE>> }
  ELSE IF DistanceSq(p.position, enemy.position) < (400 * Unit) * (400 * Unit)
  THEN { << [p EXCEPT !.state = "MOVE", !.aiPlanType = "move"], h, v, TRUE >> }
  ELSE
    LET target == Angle(p.position, enemy.position)
        c == Cross(p.aimAngle, target)
        \* |normalizedDiff| against PI / 180: sin(1 degree) = 0.017452
        off == Dot(p.aimAngle, target) <= 0 \/ Abs(c) > 17452
        aligned == Dot(p.aimAngle, target) > 0 /\ Abs(c) < 17452
        turnDirection == IF c = 0 THEN -1 ELSE Sign(c)
        h1 == IF off THEN turnDirection ELSE 0
        p1 == IF off THEN [p EXCEPT !.aimAngle = TurnAim(p.aimAngle, turnDirection)]
              ELSE p
    IN  IF HasCompletedLongBowCharge(p1) /\ aligned
        THEN { <<p1, h1, 0, FALSE>>, << [p1 EXCEPT !.state = "MOVE"], h1, 0, FALSE >> }
        ELSE { <<p1, h1, 0, FALSE>> }

\* the "Handle bow states" block that ends executeAIPlan
BowBlock(p, enemy, h, v) ==
  IF p.state = "DRAW_SHORTBOW"
  THEN LET q == [p EXCEPT !.aimAngle = Angle(p.position, enemy.position)]
       IN  IF p.aiPlanType = "jab"
           THEN AddVelocity(q, TruncDiv(h * Unit, 2), TruncDiv(v * Unit, 2))
           ELSE [q EXCEPT !.state = "MOVE"]
  ELSE AddVelocity(p, h * Unit, v * Unit)

\* PlayerActor.executeAIPlan
ExecuteAIPlan(p, enemy, enemyArrows) ==
  LET ALLOWANCE == IF p.aiPlanType = "escape" THEN 50 * Unit ELSE 100 * Unit
      axis(t, x) == IF t > x + ALLOWANCE THEN 1
                    ELSE IF t < x - ALLOWANCE THEN -1 ELSE 0
      h == axis(p.aiMoveTarget[1], p.position[1])
      v == axis(p.aiMoveTarget[2], p.position[2])
  IN  UNION { { IF r[4] THEN r[1] ELSE BowBlock(r[1], enemy, r[2], r[3]) :
                  r \in LongbowBlock(p1, enemy, h, v) } :
              p1 \in ShootDecision(p, enemy, enemyArrows) }

\* runOriginalStyleAI with the plan updated on every tick
RunOriginalStyleAI_EveryTick(p, enemyGroup) ==
  LET enemy == enemyGroup.player
  IN  IF enemy.null THEN {p}
      ELSE UNION { IF q.state # "DAMAGED"
                   THEN ExecuteAIPlan(q, enemy, enemyGroup.arrows)
                   ELSE {q} : q \in UpdateAIPlan(p, enemy, enemyGroup.arrows) }

\* PlayerActor.runOriginalStyleAI; enemyGroup is this.group.enemyGroup
RunOriginalStyleAI(p, enemyGroup) ==
  LET enemy == enemyGroup.player
      planned == IF p.aiFrameCounter % 10 = 0
                 THEN UpdateAIPlan(p, enemy, enemyGroup.arrows)
                 ELSE {p}
  IN  IF enemy.null THEN {p}
      ELSE UNION { IF q.state # "DAMAGED"
                   THEN ExecuteAIPlan(q, enemy, enemyGroup.arrows)
                   ELSE {q} : q \in planned }

\* PlayerActor.act (NullPlayerActor.act does nothing)
PlayerAct(p, enemyGroup) ==
  IF p.null THEN {p}
  ELSE { [u EXCEPT !.aiFrameCounter = u.aiFrameCounter + 1] :
           u \in { UpdateState(q) :
                     q \in IF p.isHuman THEN {p} ELSE RunOriginalStyleAI(p, enemyGroup) } }

-----------------------------------------------------------------------------
(* The objects a tick works on: both groups, the arrow identities handed    *)
(* out, the screen shake, and the record of what the tick has done so far.  *)

World(my, other, id, shake) ==
  [ my |-> my, other |-> other, nextId |-> id, shake |-> shake, events |-> <<>> ]

\* One thing a tick did.  "shortbow", "longbow": `group` fired arrow(s) `arrow` ..
\* `other`.  "pair": my arrow `arrow` and the enemy arrow `other` collided.
\* "damage", "kill": the player of `group` was hit by `arrow`, one of `count`
\* arrows overlapping it, of which `other` came first in array order, when
\* `marks` removal requests were pending in the group of the arrow.
Event(type, group, arrow, other, count, marks) ==
  [ type |-> type, group |-> group, arrow |-> arrow, other |-> other,
    count |-> count, marks |-> marks ]

Log(w, e) == [w EXCEPT !.events = Append(w.events, e)]

Enemy(which) == IF which = "my" THEN "other" ELSE "my"

\* the arrow of a shot: 24 ahead of the player along aimAngle
ShortbowOf(id, player) ==
  ShortbowArrow(id, VAdd(player.position, FromAngle(player.aimAngle, 24 * Unit)),
                player.aimAngle)

\* the i-th component (0 .. 5) of a longbow shot: arrowComponentInterval = 24
LongbowComponent(id, player, i) ==
  LongbowArrow(id, VAdd(player.position, FromAngle(player.aimAngle, i * 24 * Unit)),
               player.aimAngle)

\* a longbow shot of the shafts alone
LongbowVolley_NoHead(id, player) ==
  [ i \in 1 .. 5 |-> LongbowComponent(id + i - 1, player, i - 1) ]

\* the arrows of a longbow shot: arrowShaftNumber = 5 shafts, then the head
LongbowVolley(id, player) ==
  [ i \in 1 .. 6 |-> LongbowComponent(id + i - 1, player, i - 1) ]

\* GameSystem.fireShortbow: always into myGroup
FireShortbow(w, player) ==
  Log([w EXCEPT !.my = AddArrow(w.my, ShortbowOf(w.nextId, player)),
                !.nextId = w.nextId + 1],
      Event("shortbow", "my", w.nextId, w.nextId, 1, 0))

\* GameSystem.fireLongbow: always into myGroup
FireLongbow(w, player) ==
  Log([w EXCEPT !.my.arrows = w.my.arrows \o LongbowVolley(w.nextId, player),
                !.nextId = w.nextId + 6,
                !.shake = w.shake + 10 * ShakeUnit],
      Event("longbow", "my", w.nextId, w.nextId + 5, 6, 0))

\* GameActorGroup.fireAIShortbow
FireAIShortbow(w, which, frame) ==
  IF frame - w[which].lastAIShootFrame < 8 THEN w
  ELSE Log([w EXCEPT ![which] =
                        [AddArrow(w[which], ShortbowOf(w.nextId, w[which].player))
                           EXCEPT !.lastAIShootFrame = frame],
                     !.nextId = w.nextId + 1],
           Event("shortbow", which, w.nextId, w.nextId, 1, 0))

\* GameActorGroup.fireAILongbow
FireAILongbow(w, which) ==
  Log([w EXCEPT ![which].arrows =
                   w[which].arrows \o LongbowVolley(w.nextId, w[which].player),
                !.nextId = w.nextId + 6],
      Event("longbow", which, w.nextId, w.nextId + 5, 6, 0))

\* the "Handle AI shooting" block of GameActorGroup.act
AIShooting(w, which, previousState, frame) ==
  LET st == w[which].player.state
      w1 == IF previousState = "MOVE" /\ st = "DRAW_SHORTBOW"
            THEN FireAIShortbow(w, which, frame) ELSE w
      w2 == IF st = "DRAW_SHORTBOW" /\ frame % 12 = 0
            THEN FireAIShortbow(w1, which, frame) ELSE w1
  IN  IF previousState = "DRAW_LONGBOW" /\ st = "MOVE"
         /\ HasCompletedLongBowCharge(w[which].player)
      THEN FireAILongbow(w2, which) ELSE w2

\* GameActorGroup.act(frameCount) of group `which`
GroupAct(w, which, frame) ==
  LET previousState == w[which].player.state
  IN  { LET w1 == [w EXCEPT ![which].player = q]
        IN  IF ~q.null /\ ~q.isHuman
            THEN AIShooting(w1, which, previousState, frame) ELSE w1 :
          q \in PlayerAct(w[which].player, w[Enemy(which)]) }

\* GameActorGroup.update of group `which`
GroupUpdateIn(w, which) == [w EXCEPT ![which] = GroupUpdate(w[which])]

-----------------------------------------------------------------------------
(* GameSystem: input *)

\* One KeyInput snapshot: the move intents, Z as "up", "just" (pressed, frame
\* count 1), "held" (pressed, 2 .. 6) or "long" (pressed, more than 6), X as
\* "up", "just" or "held", and R.
KeySnapshot(h, v, z, x, r) == [ h |-> h, v |-> v, z |-> z, x |-> x, r |-> r ]
NoKeys == KeySnapshot(0, 0, "up", "up", FALSE)

\* new KeyInput().  lastZPressFrame, lastXPressFrame and frameCounter are
\* written and never read, and are left out
NewKeyInput ==
  [ isUpPressed |-> FALSE, isDownPressed |-> FALSE,
    isLeftPressed |-> FALSE, isRightPressed |-> FALSE,
    isZPressed |-> FALSE, isXPressed |-> FALSE, isRPressed |-> FALSE,
    zPressedFrameCount |-> 0, xPressedFrameCount |-> 0 ]

\* the keys of the keyboard KeyInput knows, but for space
KeyNames == {"z", "x", "r", "ArrowUp", "ArrowDown", "ArrowLeft", "ArrowRight"}

\* KeyInput.keyPressed
KeyPressed(ki, key) ==
  CASE key = "z" -> IF ~ki.isZPressed
                    THEN [ki EXCEPT !.isZPressed = TRUE, !.zPressedFrameCount = 0]
                    ELSE ki
    [] key = "x" -> IF ~ki.isXPressed
                    THEN [ki EXCEPT !.isXPressed = TRUE, !.xPressedFrameCount = 0]
                    ELSE ki
    [] key = "r" -> [ki EXCEPT !.isRPressed = TRUE]
    [] key = "ArrowUp" -> [ki EXCEPT !.isUpPressed = TRUE]
    [] key = "ArrowDown" -> [ki EXCEPT !.isDownPressed = TRUE]
    [] key = "ArrowLeft" -> [ki EXCEPT !.isLeftPressed = TRUE]
    [] key = "ArrowRight" -> [ki EXCEPT !.isRightPressed = TRUE]
    [] OTHER -> ki

\* KeyInput.keyReleased
KeyReleased(ki, key) ==
  CASE key = "z" -> [ki EXCEPT !.isZPressed = FALSE]
    [] key = "x" -> [ki EXCEPT !.isXPressed = FALSE]
    [] key = "r" -> [ki EXCEPT !.isRPressed = FALSE]
    [] key = "ArrowUp" -> [ki EXCEPT !.isUpPressed = FALSE]
    [] key = "ArrowDown" -> [ki EXCEPT !.isDownPressed = FALSE]
    [] key = "ArrowLeft" -> [ki EXCEPT !.isLeftPressed = FALSE]
    [] key = "ArrowRight" -> [ki EXCEPT !.isRightPressed = FALSE]
    [] OTHER -> ki

\* KeyInput.update.  The two counts are read as "= 1" and "> 6" only, and
\* are kept at HeldCap once they have reached it
KeyInputUpdate(ki) ==
  [ki EXCEPT !.zPressedFrameCount =
                IF ki.isZPressed THEN Min(HeldCap, ki.zPressedFrameCount + 1)
                ELSE ki.zPressedFrameCount,
             !.xPressedFrameCount =
                IF ki.isXPressed THEN Min(HeldCap, ki.xPressedFrameCount + 1)
                ELSE ki.xPressedFrameCount]

IsZJustPressed(ki) == ki.isZPressed /\ ki.zPressedFrameCount = 1
IsZLongPressed(ki) == ki.isZPressed /\ ki.zPressedFrameCount > 6
IsXJustPressed(ki) == ki.isXPressed /\ ki.xPressedFrameCount = 1

\* what handlePlayerInput and runGameOverState read of a KeyInput
SnapshotOf(ki) ==
  KeySnapshot((IF ki.isLeftPressed THEN -1 ELSE 0) + (IF ki.isRightPressed THEN 1 ELSE 0),
              (IF ki.isUpPressed THEN -1 ELSE 0) + (IF ki.isDownPressed THEN 1 ELSE 0),
              IF ~ki.isZPressed THEN "up"
              ELSE IF IsZJustPressed(ki) THEN "just"
              ELSE IF IsZLongPressed(ki) THEN "long" ELSE "held",
              IF ~ki.isXPressed THEN "up"
              ELSE IF IsXJustPressed(ki) THEN "just" ELSE "held",
              ki.isRPressed)

AimAtOther(w, player) ==
  [player EXCEPT !.aimAngle = Angle(player.position, w.other.player.position)]

\* case MOVE with the shortbow keys read after the longbow key: a Z
\* transition replaces a simultaneous draw of the longbow
InputMove_ZLast(w, k) ==
  LET p1 == AddVelocity(w.my.player, k.h * Unit, k.v * Unit)
      w1 == IF k.x = "just"
            THEN [w EXCEPT !.my.player =
                             [AimAtOther(w, p1)
                                EXCEPT !.state = "DRAW_LONGBOW", !.chargedFrameCount = 0]]
            ELSE [w EXCEPT !.my.player = p1]
  IN  IF k.z = "just"
      THEN LET a == [AimAtOther(w1, w1.my.player) EXCEPT !.state = "MOVE"]
           IN  FireShortbow([w1 EXCEPT !.my.player = a], a)
      ELSE IF k.z = "long"
      THEN [w1 EXCEPT !.my.player.state = "DRAW_SHORTBOW"]
      ELSE w1

\* case PlayerState.MOVE of handlePlayerInput
InputMove(w, k) ==
  LET p1 == AddVelocity(w.my.player, k.h * Unit, k.v * Unit)
      w1 == IF k.z = "just"
            THEN LET a == AimAtOther(w, p1)
                 IN  FireShortbow([w EXCEPT !.my.player = a], a)
            ELSE IF k.z = "long"
            THEN [w EXCEPT !.my.player =
                             [AimAtOther(w, p1) EXCEPT !.state = "DRAW_SHORTBOW"]]
            ELSE [w EXCEPT !.my.player = p1]
  IN  IF k.x = "just"
      THEN [w1 EXCEPT !.my.player =
                        [AimAtOther(w1, w1.my.player)
                           EXCEPT !.state = "DRAW_LONGBOW", !.chargedFrameCount = 0]]
      ELSE w1

\* the quarter acceleration of the draw states: 0.25 * intent
QuarterMove(p, k) ==
  AddVelocity(p, TruncDiv(k.h * Unit, 4), TruncDiv(k.v * Unit, 4))

\* case PlayerState.DRAW_SHORTBOW of handlePlayerInput
InputDrawShortbow(w, k, frame) ==
  LET p1 == AimAtOther(w, QuarterMove(w.my.player, k))
      w1 == [w EXCEPT !.my.player = p1]
  IN  IF k.z # "up"
      THEN IF frame % 12 = 0 THEN FireShortbow(w1, p1) ELSE w1
      ELSE [w1 EXCEPT !.my.player.state = "MOVE"]

\* the DRAW_LONGBOW case firing on release whatever the charge
InputDrawLongbow_AnyCharge(w, k) ==
  LET p1 == AimAtOther(w, QuarterMove(w.my.player, k))
      w1 == [w EXCEPT !.my.player = p1]
  IN  IF k.x = "up"
      THEN [FireLongbow(w1, p1) EXCEPT !.my.player.state = "MOVE"]
      ELSE w1

\* case PlayerState.DRAW_LONGBOW of handlePlayerInput
InputDrawLongbow(w, k) ==
  LET p1 == AimAtOther(w, QuarterMove(w.my.player, k))
      w1 == [w EXCEPT !.my.player = p1]
  IN  IF k.x = "up"
      THEN LET w2 == IF HasCompletedLongBowCharge(p1) THEN FireLongbow(w1, p1) ELSE w1
           IN  [w2 EXCEPT !.my.player.state = "MOVE"]
      ELSE w1

\* handlePlayerInput that reads the keys of a DAMAGED player as of one in MOVE
HandlePlayerInput_Damaged(w, k, frame) ==
  IF w.my.player.null THEN w
  ELSE CASE w.my.player.state = "DRAW_SHORTBOW" -> InputDrawShortbow(w, k, frame)
         [] w.my.player.state = "DRAW_LONGBOW" -> InputDrawLongbow(w, k)
         [] OTHER -> InputMove(w, k)

\* GameSystem.handlePlayerInput
HandlePlayerInput(w, k, frame) ==
  IF w.my.player.null THEN w
  ELSE CASE w.my.player.state = "MOVE" -> InputMove(w, k)
         [] w.my.player.state = "DRAW_SHORTBOW" -> InputDrawShortbow(w, k, frame)
         [] w.my.player.state = "DRAW_LONGBOW" -> InputDrawLongbow(w, k)
         [] OTHER -> w

-----------------------------------------------------------------------------
(* GameSystem: collisions *)

\* the index at which a loop "for (i = arrows.length - 1; i >= 0; i--)" that
\* breaks at the first arrow colliding with `actor` stops, 0 when it runs to
\* its end; 1-based (isCollided is symmetric in its two actors)
StopsAt(arrows, actor) ==
  LET c == { i \in 1 .. Len(arrows) : IsCollided(arrows[i], actor) }
  IN  IF c = {} THEN 0 ELSE CHOOSE i \in c : \A j \in c : j <= i

\* the arrow-versus-arrow loops of checkCollisions, from my arrow i down to the first
RECURSIVE ArrowPass(_, _)
ArrowPass(w, i) ==
  IF i = 0 THEN w
  ELSE
    LET myArrow == w.my.arrows[i]
        j == StopsAt(w.other.arrows, myArrow)
    IN  IF j = 0 THEN ArrowPass(w, i - 1)
        ELSE
          LET enemyArrow == w.other.arrows[j]
              w1 == [w EXCEPT !.my = RemoveArrow(w.my, myArrow.id),
                              !.other = RemoveArrow(w.other, enemyArrow.id),
                              !.shake = w.shake + 5 * ShakeUnit]
          IN  ArrowPass(Log(w1, Event("pair", "my", myArrow.id, enemyArrow.id, 1, Len(w.my.arrowsToRemove))), i - 1)

\* the arrows of the group opposing `target` that overlap the player of `target`
Overlapping(w, target) ==
  SelectSeq(w[Enemy(target)].arrows, LAMBDA a : IsCollided(a, w[target].player))

\* killPlayer that leaves the Null player where the eliminated one was, moving
KillPlayer_InPlace(w, target) ==
  [w EXCEPT ![target].player =
              [NullPlayerActor EXCEPT !.position = w[target].player.position,
                                      !.velocity = w[target].player.velocity],
            !.shake = w.shake + 50 * ShakeUnit]

\* GameSystem.killPlayer(group)
KillPlayer(w, target) ==
  [w EXCEPT ![target].player = NullPlayerActor,
            !.shake = w.shake + 50 * ShakeUnit]

\* Math.random() - 0.5 in quarter turns of PI / 2, for the draws 0 and 1/2
ThrustTurns == {-1, 0}

\* GameSystem.damagePlayer(player, arrow): the possible results
DamagePlayer(w, target, arrow) ==
  { LET player == w[target].player
        angle == Angle(arrow.position, player.position)
        thrustAngle == Turn(angle, q)
        pushed == [player EXCEPT
                     !.velocity = VAdd(player.velocity, FromAngle(thrustAngle, 20 * Unit))]
    IN  [w EXCEPT ![target].player = TakeDamage(pushed, w[Enemy(target)].player),
                  !.shake = w.shake + 10 * ShakeUnit] : q \in ThrustTurns }

\* what one arrows-versus-player loop did, for lastTick: the event, with the
\* lethality of the arrow that hit and of the first overlapping one, the last
\* overlapping arrow in array order, and where and in which state the player was
HitEvent(w, target, arrow) ==
  Event(IF arrow.lethal THEN "kill" ELSE "damage", target, arrow.id,
        Overlapping(w, target)[1].id, Len(Overlapping(w, target)),
        Len(w[Enemy(target)].arrowsToRemove))
    @@ [ lethal |-> arrow.lethal,
         firstLethal |-> Overlapping(w, target)[1].lethal,
         last |-> Overlapping(w, target)[Len(Overlapping(w, target))].id,
         at |-> w[target].player.position,
         was |-> w[target].player.state ]

\* the body of an arrows-versus-player loop for an arrow that overlaps: the
\* kill or the damage, then removeArrow
HitBy(w, target, arrow) ==
  LET hit == IF arrow.lethal THEN {KillPlayer(w, target)}
             ELSE DamagePlayer(w, target, arrow)
  IN  { Log([h EXCEPT ![Enemy(target)] = RemoveArrow(h[Enemy(target)], arrow.id)],
            HitEvent(w, target, arrow)) : h \in hit }

\* the loop asking for the removal of every overlapping arrow, not only of
\* the one that hit
RECURSIVE RemoveAll(_, _)
RemoveAll(g, arrows) ==
  IF arrows = <<>> THEN g
  ELSE RemoveAll(RemoveArrow(g, Head(arrows).id), Tail(arrows))

PlayerPass_RemoveAll(w, target) ==
  LET arrows == w[Enemy(target)].arrows
      i == StopsAt(arrows, w[target].player)
  IN  IF w[target].player.null \/ i = 0 THEN {w}
      ELSE { [h EXCEPT ![Enemy(target)] =
                RemoveAll(h[Enemy(target)],
                          SelectSeq(Overlapping(w, target), LAMBDA a : a.id # arrows[i].id))] :
             h \in HitBy(w, target, arrows[i]) }

\* the loop run upwards from index 0
PlayerPass_First(w, target) ==
  LET arrows == w[Enemy(target)].arrows
      c == { i \in 1 .. Len(arrows) : IsCollided(arrows[i], w[target].player) }
  IN  IF w[target].player.null \/ c = {} THEN {w}
      ELSE HitBy(w, target, arrows[CHOOSE i \in c : \A j \in c : i <= j])

\* one arrows-versus-player loop of checkCollisions: the arrows of the group
\* opposing `target` against the player of `target`
PlayerPass(w, target) ==
  LET arrows == w[Enemy(target)].arrows
      i == StopsAt(arrows, w[target].player)
  IN  IF w[target].player.null \/ i = 0 THEN {w}
      ELSE HitBy(w, target, arrows[i])

\* a loop that tests the arrows of a group against the group's own player
FriendlyPass(w, target) ==
  LET arrows == w[target].arrows
      i == StopsAt(arrows, w[target].player)
  IN  IF w[target].player.null \/ i = 0 THEN {w}
      ELSE IF arrows[i].lethal THEN {KillPlayer(w, target)}
      ELSE DamagePlayer(w, target, arrows[i])

\* checkCollisions that goes on to test each player against its own arrows
CheckCollisions_Friendly(w) ==
  UNION { FriendlyPass(w4, "other") :
    w4 \in UNION { FriendlyPass(w3, "my") :
      w3 \in UNION { PlayerPass(w2, "my") :
        w2 \in PlayerPass(ArrowPass(w, Len(w.my.arrows)), "other") } } }

\* GameSystem.checkCollisions
CheckCollisions(w) ==
  UNION { PlayerPass(w2, "my") :
            w2 \in PlayerPass(ArrowPass(w, Len(w.my.arrows)), "other") }

-----------------------------------------------------------------------------
(* GameSystem: the match *)

\* the fields run() leaves behind
Outcome(gs, frame, cd, msg, timer, w) ==
  [ gameState |-> gs, frameCount |-> frame, countdownNumber |-> cd,
    gameMessage |-> msg, messageTimer |-> timer, w |-> w ]

\* both groups as the GameSystem constructor (demo: white is AI) and
\* resetToNewGame (white is human) build them
NewGroups(whiteIsHuman) ==
  [ my |-> NewGroup(NewPlayerActor(320, 540, whiteIsHuman)),
    other |-> NewGroup(NewPlayerActor(320, 100, FALSE)) ]

\* runStartState counting down one frame late
RunStartState_Late(frame, w) ==
  LET w1 == GroupUpdateIn(GroupUpdateIn(w, "my"), "other")
      cd == IF frame % 60 = 1 /\ frame > 1 /\ countdownNumber > 0
            THEN countdownNumber - 1 ELSE countdownNumber
  IN  IF cd > 0
      THEN { Outcome("START", frame, cd, gameMessage, messageTimer, w1) }
      ELSE { Outcome("PLAYING", frame, cd, "Go!", 60, w1) }

\* GameSystem.runStartState
RunStartState(frame, w) ==
  LET w1 == GroupUpdateIn(GroupUpdateIn(w, "my"), "other")
      cd == IF frame % 60 = 0 /\ countdownNumber > 0
            THEN countdownNumber - 1 ELSE countdownNumber
  IN  IF cd > 0
      THEN { Outcome("START", frame, cd, gameMessage, messageTimer, w1) }
      ELSE { Outcome("PLAYING", frame, cd, "Go!", 60, w1) }

\* the win test with the two messages exchanged
WinCheck_Swapped(frame, w) ==
  LET decided ==
        IF w.my.player.null THEN <<"GAME_OVER", "You win!", 600>>
        ELSE IF w.other.player.null THEN <<"GAME_OVER", "You lose!", 600>>
        ELSE <<gameState, gameMessage, messageTimer>>
  IN  Outcome(decided[1], frame, countdownNumber, decided[2],
              IF decided[3] > 0 THEN decided[3] - 1 ELSE decided[3], w)

\* the win test and the message timer that end runPlayingState
WinCheck(frame, w) ==
  LET decided ==
        IF w.my.player.null THEN <<"GAME_OVER", "You lose!", 600>>
        ELSE IF w.other.player.null THEN <<"GAME_OVER", "You win!", 600>>
        ELSE <<gameState, gameMessage, messageTimer>>
  IN  Outcome(decided[1], frame, countdownNumber, decided[2],
              IF decided[3] > 0 THEN decided[3] - 1 ELSE decided[3], w)

\* runPlayingState with the win test ahead of checkCollisions
RunPlayingState_EarlyCheck(k, frame, w) ==
  LET w1 == GroupUpdateIn(HandlePlayerInput(w, k, frame), "my")
      acted == UNION { GroupAct(GroupUpdateIn(w2, "other"), "other", frame) :
                         w2 \in GroupAct(w1, "my", frame) }
  IN  UNION { { [WinCheck(frame, w3) EXCEPT !.w = w4] : w4 \in CheckCollisions(w3) } :
                w3 \in acted }

\* runPlayingState with act() of both groups ahead of update() of both
RunPlayingState_ActFirst(k, frame, w) ==
  LET acted == UNION { GroupAct(w2, "other", frame) :
                         w2 \in GroupAct(HandlePlayerInput(w, k, frame), "my", frame) }
      moved == { GroupUpdateIn(GroupUpdateIn(w3, "my"), "other") : w3 \in acted }
  IN  { WinCheck(frame, w4) : w4 \in UNION { CheckCollisions(w3) : w3 \in moved } }

\* GameSystem.runPlayingState
RunPlayingState(k, frame, w) ==
  LET w1 == GroupUpdateIn(HandlePlayerInput(w, k, frame), "my")
      acted == UNION { GroupAct(GroupUpdateIn(w2, "other"), "other", frame) :
                         w2 \in GroupAct(w1, "my", frame) }
  IN  { WinCheck(frame, w4) : w4 \in UNION { CheckCollisions(w3) : w3 \in acted } }

\* resetToNewGame that leaves the message timer running
ResetToNewGame_KeepTimer(w) ==
  LET g == NewGroups(TRUE)
  IN  Outcome("START", 0, 3, "", messageTimer, World(g.my, g.other, 1, w.shake))

\* GameSystem.resetToNewGame
ResetToNewGame(w) ==
  LET g == NewGroups(TRUE)
  IN  Outcome("START", 0, 3, "", 0, World(g.my, g.other, 1, w.shake))

\* runGameOverState that resets once the message has been shown for a frame,
\* whether R is pressed or not
RunGameOverState_Auto(k, frame, w) ==
  LET w1 == GroupUpdateIn(GroupUpdateIn(w, "my"), "other")
  IN  IF k.r \/ messageTimer < 599 THEN { ResetToNewGame(w1) }
      ELSE { Outcome(gameState, frame, countdownNumber, gameMessage,
                     IF messageTimer > 0 THEN messageTimer - 1 ELSE messageTimer, w1) }

\* runGameOverState that goes on resolving collisions
RunGameOverState_Collide(k, frame, w) ==
  LET w1 == GroupUpdateIn(GroupUpdateIn(w, "my"), "other")
  IN  IF k.r THEN { ResetToNewGame(w1) }
      ELSE { Outcome(gameState, frame, countdownNumber, gameMessage,
                     IF messageTimer > 0 THEN messageTimer - 1 ELSE messageTimer, w2) :
               w2 \in CheckCollisions(w1) }

\* GameSystem.runGameOverState
RunGameOverState(k, frame, w) ==
  LET w1 == GroupUpdateIn(GroupUpdateIn(w, "my"), "other")
  IN  IF k.r THEN { ResetToNewGame(w1) }
      ELSE { Outcome(gameState, frame, countdownNumber, gameMessage,
                     IF messageTimer > 0 THEN messageTimer - 1 ELSE messageTimer, w1) }

\* the screen shake decay at the head of run(): 50 / 60 a tick
ShakeDecay(shake) == IF shake > 0 THEN Max(0, shake - 5) ELSE shake

\* run() that hands the keys to handlePlayerInput during the countdown too
Run_InputInStart(k) ==
  LET frame == frameCount + 1
      w == World(myGroup, otherGroup, nextArrowId, ShakeDecay(screenShake))
  IN  IF isDemoMode /\ isSpacePressed
      THEN { Outcome(gameState, frame, countdownNumber, gameMessage, messageTimer,
                     World(myGroup, otherGroup, nextArrowId, screenShake)) }
      ELSE CASE gameState = "START" ->
                  RunStartState(frame, HandlePlayerInput(w, k, frame))
             [] gameState = "PLAYING" -> RunPlayingState(k, frame, w)
             [] OTHER -> RunGameOverState(k, frame, w)

\* GameSystem.run(keyInput): the possible outcomes of one tick
Run(k) ==
  LET frame == frameCount + 1
      w == World(myGroup, otherGroup, nextArrowId, ShakeDecay(screenShake))
  IN  IF isDemoMode /\ isSpacePressed
      THEN { Outcome(gameState, frame, countdownNumber, gameMessage, messageTimer,
                     World(myGroup, otherGroup, nextArrowId, screenShake)) }
      ELSE CASE gameState = "START" -> RunStartState(frame, w)
             [] gameState = "PLAYING" -> RunPlayingState(k, frame, w)
             [] OTHER -> RunGameOverState(k, frame, w)

\* no takeDamage() has been applied to either player of this match
NeverHit == [ my |-> -1, other |-> -1 ]

\* this run() call executes runPlayingState
IsActiveTick == gameState = "PLAYING" /\ ~(isDemoMode /\ isSpacePressed)

\* for each player the run() calls since the last takeDamage() applied to it,
\* counted to 19 from `before` when `counted`: 0 after the call that applied
\* it, -1 for a player never hit or replaced since
SinceHit(o, before, counted) ==
  [ g \in {"my", "other"} |->
      IF o.gameState = "START" \/ o.w[g].player.null THEN -1
      ELSE IF \E i \in DOMAIN o.w.events :
                o.w.events[i].type = "damage" /\ o.w.events[i].group = g
      THEN 0
      ELSE IF before[g] = -1 \/ ~counted THEN before[g]
      ELSE Min(19, before[g] + 1) ]

\* neither player has fired in the DRAW_SHORTBOW state it is in
NoDrawShot == [ my |-> 0, other |-> 0 ]

\* for each player the frame of the last shortbow arrow it fired in the
\* DRAW_SHORTBOW state it is in since it entered it, 0 when there is none
DrawShot(o) ==
  [ g \in {"my", "other"} |->
      IF o.w[g].player.null \/ o.w[g].player.state # "DRAW_SHORTBOW" THEN 0
      ELSE IF \E i \in DOMAIN o.w.events :
                o.w.events[i].type = "shortbow" /\ o.w.events[i].group = g
      THEN o.frameCount
      ELSE lastTick.drawShot[g] ]

\* for each group the frame of the last tick of this match in which a
\* shortbow arrow was added to it, 0 when there is none
ShotFrame(o) ==
  [ g \in {"my", "other"} |->
      IF \E i \in DOMAIN o.w.events :
           o.w.events[i].type = "shortbow" /\ o.w.events[i].group = g
      THEN o.frameCount
      ELSE IF o.gameState = "START" THEN 0 ELSE lastTick.shotFrame[g] ]

\* the part of the key snapshot run() reads in the current phase
KeysRead(k) ==
  IF isDemoMode /\ isSpacePressed THEN NoKeys
  ELSE CASE gameState = "PLAYING" -> k
         [] gameState = "GAME_OVER" -> [NoKeys EXCEPT !.r = k.r]
         [] OTHER -> NoKeys

\* one call of gameSystem.run(keyInput), the KeyInput giving the snapshot k
RunStep(k) ==
  /\ gameState = "START" \/ ticksLeft > 0
  /\ \E o \in Run(k) :
       /\ gameState' = o.gameState
       /\ frameCount' = o.frameCount
       /\ countdownNumber' = o.countdownNumber
       /\ gameMessage' = o.gameMessage
       /\ messageTimer' = o.messageTimer
       /\ screenShake' = o.w.shake
       /\ myGroup' = o.w.my
       /\ otherGroup' = o.w.other
       /\ nextArrowId' = o.w.nextId
       /\ lastTick' = [ kind |-> "tick", phase |-> gameState,
                        keys |-> KeysRead(k), pressed |-> k,
                        events |-> o.w.events,
                        sinceHit |-> SinceHit(o, lastTick.sinceHit, TRUE),
                        activeSinceHit |->
                          SinceHit(o, lastTick.activeSinceHit, IsActiveTick),
                        drawShot |-> DrawShot(o),
                        shotFrame |-> ShotFrame(o) ]
  /\ ticksLeft' = IF gameState = "START" THEN ticksLeft ELSE ticksLeft - 1
  /\ UNCHANGED <<isDemoMode, isSpacePressed, randomSteps>>

\* p.draw of the driver, the snapshot k being what keyInput.update() has left
Tick(k) == RunStep(k) /\ UNCHANGED <<keyInput, zJustTicks>>

\* keyPressed / handleKeyDown of the driver for the space key: KeyInput records
\* the key, and a demo match is replaced by new GameSystem(p, false, false)
SpaceKeyDown ==
  /\ isSpacePressed' = TRUE
  /\ IF isDemoMode
     THEN LET g == NewGroups(TRUE)
          IN  /\ isDemoMode' = FALSE
              /\ gameState' = "START"
              /\ frameCount' = 0
              /\ countdownNumber' = 3
              /\ screenShake' = 0
              /\ gameMessage' = ""
              /\ messageTimer' = 0
              /\ myGroup' = g.my
              /\ otherGroup' = g.other
              /\ nextArrowId' = 1
     ELSE UNCHANGED <<isDemoMode, gameState, frameCount, countdownNumber, screenShake,
                      gameMessage, messageTimer, myGroup, otherGroup, nextArrowId>>
  /\ lastTick' = [ kind |-> "spaceDown", phase |-> gameState, keys |-> NoKeys,
                   pressed |-> NoKeys, events |-> <<>>,
                   sinceHit |-> IF isDemoMode THEN NeverHit ELSE lastTick.sinceHit,
                   activeSinceHit |->
                     IF isDemoMode THEN NeverHit ELSE lastTick.activeSinceHit,
                   drawShot |-> IF isDemoMode THEN NoDrawShot ELSE lastTick.drawShot,
                   shotFrame |-> IF isDemoMode THEN NoDrawShot ELSE lastTick.shotFrame ]
  /\ UNCHANGED <<ticksLeft, randomSteps, keyInput, zJustTicks>>

\* keyReleased / handleKeyUp of the driver for the space key
SpaceKeyUp ==
  /\ isSpacePressed
  /\ isSpacePressed' = FALSE
  /\ lastTick' = [ kind |-> "spaceUp", phase |-> gameState, keys |-> NoKeys,
                   pressed |-> NoKeys, events |-> <<>>, sinceHit |-> lastTick.sinceHit,
                   activeSinceHit |-> lastTick.activeSinceHit,
                   drawShot |-> lastTick.drawShot, shotFrame |-> lastTick.shotFrame ]
  /\ UNCHANGED <<isDemoMode, gameState, frameCount, countdownNumber, screenShake,
                 gameMessage, messageTimer, myGroup, otherGroup, nextArrowId, ticksLeft,
                 randomSteps, keyInput, zJustTicks>>

\* the key snapshots explored: nothing pressed, or one key in one of its phases
Keys ==
  { KeySnapshot(h, 0, "up", "up", FALSE) : h \in {-1, 0, 1} }
    \cup { KeySnapshot(0, v, "up", "up", FALSE) : v \in {-1, 1} }
    \cup { KeySnapshot(0, 0, z, "up", FALSE) : z \in {"just", "held", "long"} }
    \cup { KeySnapshot(0, 0, "up", x, FALSE) : x \in {"just", "held"} }
    \cup { KeySnapshot(0, 0, "up", "up", TRUE) }

\* setup of the driver: new KeyInput(), new GameSystem(p, true, true)
Init ==
  /\ gameState = "START"
  /\ frameCount = 0
  /\ countdownNumber = 3
  /\ screenShake = 0
  /\ gameMessage = ""
  /\ messageTimer = 0
  /\ isDemoMode = TRUE
  /\ myGroup = NewGroups(FALSE).my
  /\ otherGroup = NewGroups(FALSE).other
  /\ isSpacePressed = FALSE
  /\ nextArrowId = 1
  /\ lastTick = [ kind |-> "init", phase |-> "START", keys |-> NoKeys, pressed |-> NoKeys,
                  events |-> <<>>,
                  sinceHit |-> NeverHit, activeSinceHit |-> NeverHit,
                  drawShot |-> NoDrawShot, shotFrame |-> NoDrawShot ]
  /\ ticksLeft = MaxPlayTicks
  /\ keyInput = NewKeyInput
  /\ zJustTicks = 0
  /\ randomSteps = RandomSteps

Next ==
  \/ \E k \in Keys : Tick(k)
  \/ SpaceKeyDown
  \/ SpaceKeyUp

Spec == Init /\ [][Next]_vars

-----------------------------------------------------------------------------
(* A duel played out: the match the driver starts on the space key, with    *)
(* the human opening by two shortbow shots and a full longbow draw.         *)

\* the key snapshots of the duel at frame `frame`: outside PLAYING nothing or
\* R; in PLAYING Z tapped on the first and the third tick, X pressed on the
\* fourth and held for the next 28, then X held on or released while the
\* longbow is drawn, and pressed again or not once it is not
DuelKeys(frame) ==
  IF gameState # "PLAYING" THEN { NoKeys, KeySnapshot(0, 0, "up", "up", TRUE) }
  ELSE IF frame \in {181, 183} THEN { KeySnapshot(0, 0, "just", "up", FALSE) }
  ELSE IF frame = 182 THEN { NoKeys }
  ELSE IF frame = 184 THEN { KeySnapshot(0, 0, "up", "just", FALSE) }
  ELSE IF frame <= 212 THEN { KeySnapshot(0, 0, "up", "held", FALSE) }
  ELSE IF myGroup.player.state = "DRAW_LONGBOW"
  THEN { NoKeys, KeySnapshot(0, 0, "up", "held", FALSE) }
  ELSE { NoKeys, KeySnapshot(0, 0, "up", "just", FALSE) }

\* the PLAYING and GAME_OVER ticks of a duel: the opening and MaxDuelTicks more
DuelTicksLeft == 33 + MaxDuelTicks

\* new GameSystem(p, false, false), the space key released again
InitDuel ==
  /\ gameState = "START"
  /\ frameCount = 0
  /\ countdownNumber = 3
  /\ screenShake = 0
  /\ gameMessage = ""
  /\ messageTimer = 0
  /\ isDemoMode = FALSE
  /\ myGroup = NewGroups(TRUE).my
  /\ otherGroup = NewGroups(TRUE).other
  /\ isSpacePressed = FALSE
  /\ nextArrowId = 1
  /\ lastTick = [ kind |-> "init", phase |-> "START", keys |-> NoKeys, pressed |-> NoKeys,
                  events |-> <<>>,
                  sinceHit |-> NeverHit, activeSinceHit |-> NeverHit,
                  drawShot |-> NoDrawShot, shotFrame |-> NoDrawShot ]
  /\ ticksLeft = DuelTicksLeft
  /\ keyInput = NewKeyInput
  /\ zJustTicks = 0
  /\ randomSteps = RandomSteps

NextDuel == \E k \in DuelKeys(frameCount + 1) : Tick(k)

SpecDuel == InitDuel /\ [][NextDuel]_vars

-----------------------------------------------------------------------------
(* A bout: the same match played long enough for either player to be hit   *)
(* and to recover, the human standing still or holding one of the bows.    *)

\* every key pressed at once on this tick
AllKeys == KeySnapshot(1, 0, "just", "just", FALSE)

\* the key snapshots of the bout at frame `frame`: on the first PLAYING tick
\* nothing, Z or X is pressed; Z once pressed is held on, and may be released
\* on tick 204 or 210; X once pressed is held on and released on tick 222; a
\* human who is hit lets go and then hits every key at once on any tick after
\* one without a key; a tap is released on the next tick
BoutKeys(frame) ==
  IF gameState # "PLAYING" THEN { NoKeys }
  ELSE IF frame = 181
  THEN { NoKeys, KeySnapshot(0, 0, "just", "up", FALSE),
         KeySnapshot(0, 0, "up", "just", FALSE) }
  ELSE IF myGroup.player.state = "DAMAGED"
  THEN IF lastTick.keys = NoKeys THEN { NoKeys, AllKeys } ELSE { NoKeys }
  ELSE IF lastTick.keys.x # "up"
  THEN IF lastTick.keys.z = "up" /\ frame <= 221
       THEN { KeySnapshot(0, 0, "up", "held", FALSE) } ELSE { NoKeys }
  ELSE IF lastTick.keys.z = "up" THEN { NoKeys }
  ELSE { KeySnapshot(0, 0, IF frame <= 186 THEN "held" ELSE "long", "up", FALSE) }
         \cup (IF frame \in {204, 210} THEN { NoKeys } ELSE {})

\* new GameSystem(p, false, false), the space key released again
InitBout ==
  /\ gameState = "START"
  /\ frameCount = 0
  /\ countdownNumber = 3
  /\ screenShake = 0
  /\ gameMessage = ""
  /\ messageTimer = 0
  /\ isDemoMode = FALSE
  /\ myGroup = NewGroups(TRUE).my
  /\ otherGroup = NewGroups(TRUE).other
  /\ isSpacePressed = FALSE
  /\ nextArrowId = 1
  /\ lastTick = [ kind |-> "init", phase |-> "START", keys |-> NoKeys, pressed |-> NoKeys,
                  events |-> <<>>,
                  sinceHit |-> NeverHit, activeSinceHit |-> NeverHit,
                  drawShot |-> NoDrawShot, shotFrame |-> NoDrawShot ]
  /\ ticksLeft = MaxBoutTicks
  /\ keyInput = NewKeyInput
  /\ zJustTicks = 0
  /\ randomSteps = BoutRandomSteps

NextBout == \E k \in BoutKeys(frameCount + 1) : Tick(k)

SpecBout == InitBout /\ [][NextBout]_vars

-----------------------------------------------------------------------------
(* A volley: the same match, the human drawing the longbow at once and     *)
(* releasing it on any tick once it is charged.                            *)

\* the first frame on which the longbow may be released
ReleaseFromFrame == 212

\* the key snapshots of the volley at frame `frame`: X is pressed on the
\* first PLAYING tick, held on to frame ReleaseFromFrame - 1 and then held on
\* or released; nothing is pressed after that
VolleyKeys(frame) ==
  IF gameState # "PLAYING" THEN { NoKeys }
  ELSE IF frame = 181 THEN { KeySnapshot(0, 0, "up", "just", FALSE) }
  ELSE IF myGroup.player.state # "DRAW_LONGBOW" THEN { NoKeys }
  ELSE { KeySnapshot(0, 0, "up", "held", FALSE) }
         \cup (IF frame >= ReleaseFromFrame THEN { NoKeys } ELSE {})

NextVolley == \E k \in VolleyKeys(frameCount + 1) : Tick(k)

SpecVolley == InitBout /\ [][NextVolley]_vars

-----------------------------------------------------------------------------
(* A flight: the same match, the human tapping Z on the first PLAYING tick  *)
(* and standing still from then on, followed for long enough for the arrows *)
(* of both players to cross the arena.                                      *)

\* the key snapshots of the flight at frame `frame`
FlightKeys(frame) ==
  IF gameState = "PLAYING" /\ frame = 181
  THEN { KeySnapshot(0, 0, "just", "up", FALSE) }
  ELSE { NoKeys }

\* new GameSystem(p, false, false), the space key released again
InitFlight ==
  /\ gameState = "START"
  /\ frameCount = 0
  /\ countdownNumber = 3
  /\ screenShake = 0
  /\ gameMessage = ""
  /\ messageTimer = 0
  /\ isDemoMode = FALSE
  /\ myGroup = NewGroups(TRUE).my
  /\ otherGroup = NewGroups(TRUE).other
  /\ isSpacePressed = FALSE
  /\ nextArrowId = 1
  /\ lastTick = [ kind |-> "init", phase |-> "START", keys |-> NoKeys, pressed |-> NoKeys,
                  events |-> <<>>,
                  sinceHit |-> NeverHit, activeSinceHit |-> NeverHit,
                  drawShot |-> NoDrawShot, shotFrame |-> NoDrawShot ]
  /\ ticksLeft = MaxFlightTicks
  /\ keyInput = NewKeyInput
  /\ zJustTicks = 0
  /\ randomSteps = BoutRandomSteps

NextFlight == \E k \in FlightKeys(frameCount + 1) : Tick(k)

SpecFlight == InitFlight /\ [][NextFlight]_vars

\* p5 calls draw() again on every frame: the step of a flight that advances
\* frameCount, possible for as long as a tick is left to explore
DrawCalled ==
  /\ gameState = "START" \/ ticksLeft > 0
  /\ frameCount' = frameCount + 1

\* the flight in which draw() goes on being called
FairFlight == SpecFlight /\ WF_frameCount(DrawCalled)

-----------------------------------------------------------------------------
(* The demo match with a hand on the keyboard: both players are AI, and the *)
(* keys other than space still reach handlePlayerInput, which works on the  *)
(* white player whoever controls it.                                        *)

\* the frame from which Up is pressed at the latest
ApproachFrame == 300

\* the key snapshots of the demo match at frame `frame`: X is pressed on the
\* first PLAYING tick and held on; Up is pressed with it from the second
\* PLAYING tick or from ApproachFrame, and once pressed is held on.  The
\* match is followed for as long as white holds the draw and black has no
\* arrow in flight
DemoKeys(frame) ==
  IF gameState = "START" THEN { NoKeys }
  ELSE IF frame = 181 THEN { KeySnapshot(0, 0, "up", "just", FALSE) }
  ELSE IF gameState # "PLAYING" \/ myGroup.player.state # "DRAW_LONGBOW"
          \/ otherGroup.arrows # <<>>
  THEN {}
  ELSE IF lastTick.keys.v = -1 \/ frame >= ApproachFrame
  THEN { KeySnapshot(0, -1, "up", "held", FALSE) }
  ELSE { KeySnapshot(0, 0, "up", "held", FALSE) }
         \cup (IF frame = 182 THEN { KeySnapshot(0, -1, "up", "held", FALSE) } ELSE {})

\* setup of the driver: new KeyInput(), new GameSystem(p, true, true)
InitDemo ==
  /\ gameState = "START"
  /\ frameCount = 0
  /\ countdownNumber = 3
  /\ screenShake = 0
  /\ gameMessage = ""
  /\ messageTimer = 0
  /\ isDemoMode = TRUE
  /\ myGroup = NewGroups(FALSE).my
  /\ otherGroup = NewGroups(FALSE).other
  /\ isSpacePressed = FALSE
  /\ nextArrowId = 1
  /\ lastTick = [ kind |-> "init", phase |-> "START", keys |-> NoKeys, pressed |-> NoKeys,
                  events |-> <<>>,
                  sinceHit |-> NeverHit, activeSinceHit |-> NeverHit,
                  drawShot |-> NoDrawShot, shotFrame |-> NoDrawShot ]
  /\ ticksLeft = MaxDemoTicks
  /\ keyInput = NewKeyInput
  /\ zJustTicks = 0
  /\ randomSteps = BoutRandomSteps

NextDemo == \E k \in DemoKeys(frameCount + 1) : Tick(k)

SpecDemo == InitDemo /\ [][NextDemo]_vars

-----------------------------------------------------------------------------
(* The match the driver starts on the space key, with the keyboard itself:  *)
(* key events arrive between the draw() calls in any order and number, and  *)
(* each draw() call runs keyInput.update() and then gameSystem.run().       *)

\* the keys pressed and released
KeysTyped == {"z", "x"}

\* the keyboard is explored from frame KeysFromFrame of the countdown, for
\* as long as ticks are
KeyboardOpen == frameCount >= KeysFromFrame /\ ticksLeft > 0

\* what a key event leaves in lastTick
KeyEvent(kind) ==
  [ kind |-> kind, phase |-> gameState, keys |-> NoKeys, pressed |-> NoKeys,
    events |-> <<>>, sinceHit |-> lastTick.sinceHit,
    activeSinceHit |-> lastTick.activeSinceHit, drawShot |-> lastTick.drawShot,
    shotFrame |-> lastTick.shotFrame ]

\* p.keyPressed and handleKeyDown of the driver for a key other than space:
\* both deliver the event, and the keyboard repeats it while the key is down
KeyDown(key) ==
  /\ KeyboardOpen
  /\ keyInput' = KeyPressed(keyInput, key)
  /\ zJustTicks' = IF key = "z" /\ ~keyInput.isZPressed THEN 0 ELSE zJustTicks
  /\ lastTick' = KeyEvent("keyDown")
  /\ UNCHANGED <<gameState, frameCount, countdownNumber, screenShake, gameMessage,
                 messageTimer, isDemoMode, myGroup, otherGroup, isSpacePressed,
                 nextArrowId, ticksLeft, randomSteps>>

\* p.keyReleased and handleKeyUp of the driver for a key other than space
KeyUp(key) ==
  /\ KeyboardOpen
  /\ keyInput' = KeyReleased(keyInput, key)
  /\ lastTick' = KeyEvent("keyUp")
  /\ UNCHANGED <<gameState, frameCount, countdownNumber, screenShake, gameMessage,
                 messageTimer, isDemoMode, myGroup, otherGroup, isSpacePressed,
                 nextArrowId, ticksLeft, randomSteps, zJustTicks>>

\* p.draw of the driver: keyInput.update(), then gameSystem.run(keyInput)
Draw ==
  LET ki == KeyInputUpdate(keyInput)
  IN  /\ keyInput' = ki
      /\ zJustTicks' = IF IsZJustPressed(ki) THEN zJustTicks + 1 ELSE zJustTicks
      /\ RunStep(SnapshotOf(ki))

\* new GameSystem(p, false, false), the space key released again
InitKeys ==
  /\ gameState = "START"
  /\ frameCount = 0
  /\ countdownNumber = 3
  /\ screenShake = 0
  /\ gameMessage = ""
  /\ messageTimer = 0
  /\ isDemoMode = FALSE
  /\ myGroup = NewGroups(TRUE).my
  /\ otherGroup = NewGroups(TRUE).other
  /\ isSpacePressed = FALSE
  /\ nextArrowId = 1
  /\ lastTick = [ kind |-> "init", phase |-> "START", keys |-> NoKeys, pressed |-> NoKeys,
                  events |-> <<>>,
                  sinceHit |-> NeverHit, activeSinceHit |-> NeverHit,
                  drawShot |-> NoDrawShot, shotFrame |-> NoDrawShot ]
  /\ ticksLeft = MaxKeyTicks
  /\ randomSteps = BoutRandomSteps
  /\ keyInput = NewKeyInput
  /\ zJustTicks = 0

NextKeys ==
  \/ \E key \in KeysTyped : KeyDown(key)
  \/ \E key \in KeysTyped : KeyUp(key)
  \/ Draw

SpecKeys == InitKeys /\ [][NextKeys]_vars

-----------------------------------------------------------------------------
(* Properties of the match phases *)

Became(before, after) == ~before.player.null /\ after.player.null

\* C1: a tick changes the phase only from START to PLAYING when the countdown
\* reaches zero, from PLAYING to GAME_OVER when a player has become Null, and
\* from GAME_OVER to START when R is pressed
C1_PhaseChanges ==
  [][ gameState' # gameState =>
        \/ /\ gameState = "START" /\ gameState' = "PLAYING"
           /\ countdownNumber > 0 /\ countdownNumber' = 0
        \/ /\ gameState = "PLAYING" /\ gameState' = "GAME_OVER"
           /\ Became(myGroup, myGroup') \/ Became(otherGroup, otherGroup')
        \/ /\ gameState = "GAME_OVER" /\ gameState' = "START"
           /\ lastTick'.keys.r ]_vars

\* a second countdown has begun: every phase change has happened
C1_Witness ==
  gameState = "START" /\ frameCount = 1 /\ ticksLeft < DuelTicksLeft

\* C2: from construction or reset the countdown is 3 less one per sixty frames
\* and never below 0, the phase is START exactly up to frame 179, and frame
\* 180 leaves PLAYING with 'Go!' and message timer 60
C2_Countdown ==
  /\ countdownNumber = Max(0, 3 - (frameCount \div 60))
  /\ (gameState = "START") <=> (frameCount < 180)
  /\ frameCount = 180 =>
       gameState = "PLAYING" /\ gameMessage = "Go!" /\ messageTimer = 60

\* the countdown of a reset match has just ended
C2_Witness ==
  frameCount = 180 /\ gameState = "PLAYING" /\ countdownNumber = 0
    /\ ticksLeft < DuelTicksLeft

\* C3: at the end of every tick the phase is GAME_OVER exactly when one of the
\* two players is Null
C3_ResolvedIffNull ==
  (gameState = "GAME_OVER") <=> (myGroup.player.null \/ otherGroup.player.null)

\* a lethal arrow has eliminated a player in the PLAYING tick just run
C3_Witness ==
  /\ lastTick.phase = "PLAYING"
  /\ \E i \in DOMAIN lastTick.events : lastTick.events[i].type = "kill"
  /\ gameState = "GAME_OVER"

\* C4: on the tick that enters GAME_OVER the message is 'You win!' exactly
\* when black was eliminated and white was not, 'You lose!' exactly when
\* white was eliminated, and no later GAME_OVER tick changes it
C4_Message ==
  [][ /\ (gameState # "GAME_OVER" /\ gameState' = "GAME_OVER") =>
           /\ (gameMessage' = "You win!") <=>
                (otherGroup'.player.null /\ ~myGroup'.player.null)
           /\ (gameMessage' = "You lose!") <=> myGroup'.player.null
      /\ (gameState = "GAME_OVER" /\ gameState' = "GAME_OVER") =>
           gameMessage' = gameMessage ]_vars

\* the win message has outlived a GAME_OVER tick
C4_Witness ==
  /\ lastTick.phase = "GAME_OVER" /\ gameState = "GAME_OVER"
  /\ gameMessage = "You win!" /\ otherGroup.player.null

\* a player as constructed at (x, y)
Undamaged(p, x, y) ==
  /\ ~p.null /\ p.state = "MOVE" /\ p.damageRemainingFrameCount = 0
  /\ p.position = <<x * Unit, y * Unit>>

C6_ResetIsFresh ==
  (lastTick.kind = "tick" /\ lastTick.phase = "GAME_OVER" /\ lastTick.keys.r) =>
    /\ gameState = "START" /\ frameCount = 0 /\ countdownNumber = 3
    /\ gameMessage = "" /\ messageTimer = 0
    /\ screenShake = 0
    /\ myGroup = NewGroups(TRUE).my /\ otherGroup = NewGroups(TRUE).other

-----------------------------------------------------------------------------
(* Properties of checkCollisions *)

\* the hits on the player of `target` in the tick just run
Hits(target) ==
  { i \in DOMAIN lastTick.events :
      /\ lastTick.events[i].type \in {"kill", "damage"}
      /\ lastTick.events[i].group = target }

Pairs == { i \in DOMAIN lastTick.events : lastTick.events[i].type = "pair" }

Group(which) == IF which = "my" THEN myGroup ELSE otherGroup

\* the player of `target`, where it stood when it was hit
StoodAt(target, position) == [Group(target).player EXCEPT !.position = position]

\* C7: in one tick a player takes at most one hit, and the loop that applied
\* it made one removal request, for the arrow that hit; the other arrows stay
\* in the collection
C7_OneHit ==
  \A target \in {"my", "other"} :
    /\ Cardinality(Hits(target)) <= 1
    /\ \A i \in Hits(target) :
         LET e == lastTick.events[i]
             shooter == Group(Enemy(target))
         IN  /\ Len(shooter.arrowsToRemove) = e.marks + 1
             /\ shooter.arrowsToRemove[Len(shooter.arrowsToRemove)] = e.arrow
             /\ e.count = Len(SelectSeq(shooter.arrows,
                                        LAMBDA a : IsCollided(a, StoodAt(target, e.at))))

\* three arrows overlapped a player that was hit
C7_Witness ==
  \E i \in Hits("other") : lastTick.events[i].count >= 3

\* C8 as stated: the hit is resolved by the first overlapping arrow in array
\* order, whose lethality decides between damage and elimination
C8_FirstInArrayOrder ==
  \A target \in {"my", "other"} : \A i \in Hits(target) :
    LET e == lastTick.events[i]
    IN  e.arrow = e.other /\ (Group(target).player.null <=> e.firstLethal)

\* C8, amended: the hit is resolved by the last overlapping arrow in array
\* order (the highest index, the latest fired), whose lethality decides
\* between damage and elimination
C8_LastInArrayOrder ==
  \A target \in {"my", "other"} : \A i \in Hits(target) :
    LET e == lastTick.events[i]
    IN  e.arrow = e.last /\ (Group(target).player.null <=> e.lethal)

\* a shortbow arrow and a longbow arrow overlapped the player that was hit
C8_Witness ==
  \E i \in Hits("other") :
    /\ lastTick.events[i].count >= 2
    /\ lastTick.events[i].lethal # lastTick.events[i].firstLethal

\* C9: no arrow of either group is in more than one colliding pair of a tick
C9_OnePairPerArrow ==
  \A i, j \in Pairs :
    i # j => /\ lastTick.events[i].arrow # lastTick.events[j].arrow
             /\ lastTick.events[i].other # lastTick.events[j].other

\* C10: a lethal arrow leaves the player it hits Null whatever its state, a
\* non-lethal arrow leaves it DAMAGED with 18 frames of damage to go, also
\* when it was DAMAGED already
C10_HitEffect ==
  \A target \in {"my", "other"} : \A i \in Hits(target) :
    LET e == lastTick.events[i]
        player == Group(target).player
    IN  /\ e.lethal => player.null
        /\ ~e.lethal => /\ ~player.null
                        /\ player.state = "DAMAGED"
                        /\ player.damageRemainingFrameCount = 18

\* a shortbow arrow has hit a player that was DAMAGED
C10_Witness ==
  \E i \in Hits("other") :
    ~lastTick.events[i].lethal /\ lastTick.events[i].was = "DAMAGED"

-----------------------------------------------------------------------------
(* Properties of the damage state *)

\* C11 as stated: a player hit in tick t and not hit again is DAMAGED at the
\* end of every tick up to t+17 and in MOVE at the end of tick t+18
C11_EighteenTicks ==
  \A g \in {"my", "other"} :
    /\ lastTick.sinceHit[g] \in 0 .. 17 => Group(g).player.state = "DAMAGED"
    /\ lastTick.sinceHit[g] = 18 => Group(g).player.state = "MOVE"

\* C11: a player hit in Active tick t and not hit again is DAMAGED, with
\* 18 - k on its damage counter, at the end of the k-th Active tick after t
\* for k up to 17, and in MOVE with the counter at 0 at the end of the 18th
C11_EighteenActiveTicks ==
  \A g \in {"my", "other"} :
    /\ lastTick.activeSinceHit[g] \in 0 .. 17 =>
         /\ Group(g).player.state = "DAMAGED"
         /\ Group(g).player.damageRemainingFrameCount =
              18 - lastTick.activeSinceHit[g]
    /\ lastTick.activeSinceHit[g] = 18 =>
         /\ Group(g).player.state = "MOVE"
         /\ Group(g).player.damageRemainingFrameCount = 0

\* the human has come through the 18 Active ticks, hitting every key on the
\* last of them
C11_Witness ==
  /\ lastTick.activeSinceHit.my = 18 /\ lastTick.keys = AllKeys
  /\ myGroup.player.state = "MOVE"

\* the player of `g` is hit by a non-lethal arrow in this step
HitNow(g) ==
  \E i \in DOMAIN lastTick'.events :
    lastTick'.events[i].type = "damage" /\ lastTick'.events[i].group = g

\* C12 as stated: a positive damage counter is smaller after every tick, and
\* a player leaves DAMAGED only for MOVE and only with the counter at zero
C12_StrictlyDecreasing ==
  [][ \A g \in {"my", "other"} :
        (~Group(g).player.null /\ Group(g).player.damageRemainingFrameCount > 0) =>
          /\ ~Group(g)'.player.null
          /\ Group(g)'.player.damageRemainingFrameCount
               < Group(g).player.damageRemainingFrameCount
          /\ (Group(g).player.state = "DAMAGED" /\ Group(g)'.player.state # "DAMAGED")
               => /\ Group(g)'.player.state = "MOVE"
                  /\ Group(g)'.player.damageRemainingFrameCount = 0 ]_vars

\* C12: a player is DAMAGED exactly while its damage counter is positive; an
\* Active tick in which it is not hit takes one off the counter and leaves
\* it DAMAGED, or in MOVE when the counter has reached zero; a non-lethal hit
\* sets the counter back to 18, a lethal hit replaces the player by Null; a
\* tick outside PLAYING leaves state and counter alone unless it resets the
\* match
C12_Countdown ==
  [][ \A g \in {"my", "other"} :
        LET p == Group(g).player
            q == Group(g)'.player
        IN  (~p.null /\ p.damageRemainingFrameCount > 0) =>
              /\ p.state = "DAMAGED"
              /\ CASE gameState' = "START" -> Undamaged(q, q.position[1] \div Unit,
                                                         q.position[2] \div Unit)
                    [] ~IsActiveTick ->
                         /\ ~q.null /\ q.state = p.state
                         /\ q.damageRemainingFrameCount = p.damageRemainingFrameCount
                    [] q.null ->
                         \E i \in Hits(g)' : lastTick'.events[i].type = "kill"
                    [] HitNow(g) ->
                         q.state = "DAMAGED" /\ q.damageRemainingFrameCount = 18
                    [] OTHER ->
                         /\ q.damageRemainingFrameCount = p.damageRemainingFrameCount - 1
                         /\ q.state = IF q.damageRemainingFrameCount = 0
                                       THEN "MOVE" ELSE "DAMAGED" ]_vars

\* the AI has counted its damage down to zero and is back in MOVE
C12_Witness ==
  /\ lastTick.activeSinceHit.other = 18 /\ otherGroup.player.state = "MOVE"
  /\ otherGroup.player.damageRemainingFrameCount = 0

\* no arrow of the group after the step was constructed in the step
NoNewArrow(g) ==
  \A i \in DOMAIN Group(g)'.arrows : Group(g)'.arrows[i].id < nextArrowId

-----------------------------------------------------------------------------
(* Properties of the bows *)

Shots(g, type) ==
  { i \in DOMAIN lastTick'.events :
      lastTick'.events[i].type = type /\ lastTick'.events[i].group = g }

\* C15: an Active tick that a human begins in DRAW_LONGBOW with X not pressed
\* fires one longbow shot if the charge was complete and none if not, and
\* leaves the human in MOVE; with X pressed it fires nothing and leaves the
\* human in DRAW_LONGBOW (in either case a hit later in the same tick makes
\* the human DAMAGED or Null)
C15_Release ==
  [][ (IsActiveTick /\ ~myGroup.player.null /\ myGroup.player.isHuman
         /\ myGroup.player.state = "DRAW_LONGBOW") =>
        LET p == myGroup.player
            q == myGroup'.player
        IN  /\ Shots("my", "shortbow") = {}
            /\ Cardinality(Shots("my", "longbow")) =
                 (IF lastTick'.keys.x = "up" /\ HasCompletedLongBowCharge(p)
                  THEN 1 ELSE 0)
            /\ (~q.null /\ ~HitNow("my")) =>
                 q.state = (IF lastTick'.keys.x = "up" THEN "MOVE" ELSE "DRAW_LONGBOW")
            /\ (~q.null /\ HitNow("my")) => q.state = "DAMAGED" ]_vars

\* the human has let go of X after 29 ticks of drawing: back in MOVE, nothing
\* fired
C15_Witness ==
  /\ lastTick.phase = "PLAYING" /\ lastTick.keys = NoKeys /\ lastTick.events = <<>>
  /\ myGroup.player.state = "MOVE" /\ myGroup.player.chargedFrameCount = 29
  /\ myGroup.player.isHuman

\* the arrows of group `g` after the step that were constructed in it
NewArrows(g) ==
  SelectSeq(Group(g)'.arrows, LAMBDA a : a.id >= nextArrowId)

C17_Cadence ==
  [][ \A g \in {"my", "other"} :
        LET p == Group(g).player
            q == Group(g)'.player
        IN  (IsActiveTick /\ ~p.null /\ ~q.null) =>
              /\ (q.state = "DRAW_SHORTBOW" /\ Shots(g, "shortbow") # {}
                    /\ lastTick.drawShot[g] # 0)
                   => frameCount' - lastTick.drawShot[g] = 12
              /\ (p.state = "DRAW_SHORTBOW" /\ q.state = "MOVE")
                   => Shots(g, "shortbow") = {} ]_vars

-----------------------------------------------------------------------------
(* Properties of arrow removal *)

\* the identities of the arrows in a sequence, and of a sequence of requests
Ids(arrows) == { arrows[i].id : i \in DOMAIN arrows }
Marked(requests) == { requests[i] : i \in DOMAIN requests }

\* this run() call calls update() of both groups and keeps the groups
UpdatesGroups ==
  /\ gameState \in {"PLAYING", "GAME_OVER"} /\ ~(isDemoMode /\ isSpacePressed)
  /\ gameState' # "START"

\* C18: a removal request leaves the arrow in the collection: every arrow
\* requested to be removed in a tick is in the collection at the end of the
\* tick; the update() of the next tick removes all of them at once and no
\* other arrow, before it moves the arrows that remain
C18_DeferredRemoval ==
  [][ UpdatesGroups =>
        \A g \in {"my", "other"} :
          /\ Marked(Group(g).arrowsToRemove) \subseteq Ids(Group(g).arrows)
          /\ Marked(Group(g)'.arrowsToRemove) \subseteq Ids(Group(g)'.arrows)
          /\ { id \in Ids(Group(g)'.arrows) : id < nextArrowId }
               = Ids(Group(g).arrows) \ Marked(Group(g).arrowsToRemove)
          /\ \A i \in DOMAIN Group(g).arrows : \A j \in DOMAIN Group(g)'.arrows :
               Group(g).arrows[i].id = Group(g)'.arrows[j].id =>
                 Group(g)'.arrows[j] = ArrowUpdate(Group(g).arrows[i]) ]_vars

\* three arrows of one group are requested to be removed and are all still
\* in its collection
C18_Witness ==
  \E g \in {"my", "other"} :
    /\ Cardinality(Marked(Group(g).arrowsToRemove)) >= 3
    /\ Marked(Group(g).arrowsToRemove) \subseteq Ids(Group(g).arrows)
    /\ Len(Group(g).arrows) > Cardinality(Marked(Group(g).arrowsToRemove))

\* a coordinate of the arrow is below -halfLength or above 640 + halfLength
Outside(a) ==
  \E c \in 1 .. 2 :
    a.position[c] < -a.halfLength \/ a.position[c] > 640 * Unit + a.halfLength

\* the arrow takes part in a collision of this step
Collides(id) ==
  \E i \in DOMAIN lastTick'.events :
    /\ lastTick'.events[i].type \in {"pair", "damage", "kill"}
    /\ id \in {lastTick'.events[i].arrow, lastTick'.events[i].other}

\* C19: of the arrows a tick has moved, those that are outside the extended
\* bounds are requested to be removed and are still in the collection at the
\* end of the tick, those inside are requested to be removed only by a
\* collision; the update() of the next tick removes the arrow that is outside
C19_OutOfBounds ==
  [][ UpdatesGroups =>
        \A g \in {"my", "other"} :
          /\ \A j \in DOMAIN Group(g)'.arrows :
               LET a == Group(g)'.arrows[j]
               IN  (a.id < nextArrowId \/ Group(g).player.isHuman) =>
                     /\ Outside(a) => a.id \in Marked(Group(g)'.arrowsToRemove)
                     /\ (~Outside(a) /\ a.id \in Marked(Group(g)'.arrowsToRemove))
                          => Collides(a.id)
          /\ \A i \in DOMAIN Group(g).arrows :
               Outside(Group(g).arrows[i]) =>
                 Group(g).arrows[i].id \notin Ids(Group(g)'.arrows) ]_vars

\* an arrow has left the extended bounds by less than its speed: it is
\* requested to be removed and still in the collection, beside one that is
\* inside and not requested
C19_Witness ==
  \E g \in {"my", "other"} : \E i, j \in DOMAIN Group(g).arrows :
    /\ Outside(Group(g).arrows[i])
    /\ Group(g).arrows[i].id \in Marked(Group(g).arrowsToRemove)
    /\ ~Outside(Group(g).arrows[j])
    /\ Group(g).arrows[j].id \notin Marked(Group(g).arrowsToRemove)

-----------------------------------------------------------------------------
(* Properties of the order within a tick *)

Integrated(g) ==
  IF g = "my"
  THEN PlayerUpdate(HandlePlayerInput(World(myGroup, otherGroup, nextArrowId, 0),
                                      lastTick'.keys, frameCount').my.player)
  ELSE PlayerUpdate(otherGroup.player)

-----------------------------------------------------------------------------
(* Properties of the countdown and of a match that is over *)

\* a player of the countdown: not Null, in MOVE, undamaged, and its group
\* without arrows
Idle(g) ==
  /\ ~g.player.null /\ g.player.state = "MOVE"
  /\ g.player.damageRemainingFrameCount = 0
  /\ g.arrows = <<>> /\ g.arrowsToRemove = <<>>

\* C21: in START both players are in MOVE with damage counter 0 and both
\* arrow collections are empty, and a tick run in START, whatever keys are
\* pressed, leaves each player's state, aim and charge alone and its velocity
\* and position as its own update() gives them
C21_CountdownIdle ==
  [][ /\ gameState = "START" => Idle(myGroup) /\ Idle(otherGroup)
      /\ gameState' = "START" => Idle(myGroup') /\ Idle(otherGroup')
      /\ (gameState = "START" /\ lastTick'.kind = "tick") =>
           \A g \in {"my", "other"} :
             LET p == Group(g).player
                 q == Group(g)'.player
             IN  /\ Idle(Group(g)')
                 /\ q.state = p.state /\ q.aimAngle = p.aimAngle
                 /\ q.chargedFrameCount = p.chargedFrameCount
                 /\ q.velocity = PlayerUpdate(p).velocity
                 /\ q.position = PlayerUpdate(p).position
                 /\ q.velocity = p.velocity ]_vars

\* Z has been pressed on a countdown tick of a match with a human player
C21_Witness ==
  /\ lastTick.kind = "tick" /\ lastTick.phase = "START" /\ gameState = "START"
  /\ lastTick.pressed.z = "just" /\ ~isDemoMode /\ myGroup.player.isHuman
  /\ frameCount > 1

\* this run() call executes runGameOverState without a reset
IsResolvedTick ==
  /\ gameState = "GAME_OVER" /\ ~(isDemoMode /\ isSpacePressed)
  /\ lastTick'.kind = "tick" /\ ~lastTick'.keys.r

\* C22: a GAME_OVER tick without R leaves the phase, fires no arrow and
\* resolves no collision; each player keeps its variant, state, charge and
\* damage counter; the arrows that remain are those of before less the ones
\* requested to be removed before the tick, and the only new requests are for
\* arrows that have left the extended bounds
C22_ResolvedInert ==
  [][ IsResolvedTick =>
        /\ gameState' = "GAME_OVER"
        /\ lastTick'.events = <<>>
        /\ \A g \in {"my", "other"} :
             LET p == Group(g).player
                 q == Group(g)'.player
             IN  /\ NoNewArrow(g)
                 /\ Ids(Group(g)'.arrows)
                      = Ids(Group(g).arrows) \ Marked(Group(g).arrowsToRemove)
                 /\ Len(Group(g)'.arrows) <= Len(Group(g).arrows)
                 /\ Marked(Group(g)'.arrowsToRemove)
                      = { Group(g)'.arrows[i].id :
                            i \in { j \in DOMAIN Group(g)'.arrows :
                                      Outside(Group(g)'.arrows[j]) } }
                 /\ q.null = p.null /\ q.state = p.state
                 /\ q.chargedFrameCount = p.chargedFrameCount
                 /\ q.damageRemainingFrameCount = p.damageRemainingFrameCount ]_vars

\* in a match that is over a white arrow and a black arrow overlap, and
\* neither is requested to be removed
C22_Witness ==
  /\ lastTick.kind = "tick" /\ lastTick.phase = "GAME_OVER" /\ gameState = "GAME_OVER"
  /\ \E i \in DOMAIN myGroup.arrows : \E j \in DOMAIN otherGroup.arrows :
       /\ IsCollided(myGroup.arrows[i], otherGroup.arrows[j])
       /\ myGroup.arrows[i].id \notin Marked(myGroup.arrowsToRemove)
       /\ otherGroup.arrows[j].id \notin Marked(otherGroup.arrowsToRemove)

\* C23: a Null player is the NullPlayerActor as constructed (in MOVE, at
\* (0, 0), at rest), and as long as the match is not replaced by a new one
\* it stays so, no hit is registered on it, and its group adds no arrow
C23_NullStaysNull ==
  [][ \A g \in {"my", "other"} :
        /\ Group(g)'.player.null => Group(g)'.player = NullPlayerActor
        /\ (Group(g).player.null /\ gameState' # "START") =>
             /\ Group(g)'.player = NullPlayerActor
             /\ Hits(g)' = {}
             /\ NoNewArrow(g)
             /\ Ids(Group(g)'.arrows) \subseteq Ids(Group(g).arrows) ]_vars

\* black has been Null through a tick in which both groups still had arrows
\* in flight
C23_Witness ==
  /\ lastTick.kind = "tick" /\ lastTick.phase = "GAME_OVER"
  /\ otherGroup.player.null /\ otherGroup.player.position = <<0, 0>>
  /\ otherGroup.arrows # <<>> /\ myGroup.arrows # <<>>

-----------------------------------------------------------------------------
(* Properties of the player's motion *)

\* this step is a run() call that calls update() of both groups and keeps them
UpdatesPlayers ==
  /\ lastTick'.kind = "tick" /\ ~(isDemoMode /\ isSpacePressed)
  /\ ~(gameState = "GAME_OVER" /\ lastTick'.keys.r)

\* the player of `g` as its update() in this step finds it: for the white
\* group of an Active tick after handlePlayerInput
BeforeUpdate(g) ==
  IF g = "my" /\ IsActiveTick
  THEN HandlePlayerInput(World(myGroup, otherGroup, nextArrowId, 0),
                         lastTick'.keys, frameCount').my.player
  ELSE Group(g).player

\* nothing but update() changes the velocity of the player of `g` in this
\* step: the player is not hit, and is not an AI executing its plan
VelocityKept(g) ==
  /\ ~HitNow(g)
  /\ \/ ~IsActiveTick
     \/ Group(g).player.isHuman
     \/ Group(g).player.state = "DAMAGED"

\* the coordinate `c` of the player of `g` is clamped in this step
Clamped(g, c) ==
  LET b == BeforeUpdate(g)
  IN  /\ UpdatesPlayers /\ ~b.null /\ ~Group(g)'.player.null
      /\ \/ b.position[c] + b.velocity[c] < 16 * Unit
         \/ b.position[c] + b.velocity[c] > 624 * Unit

\* C24 as stated: a clamped axis ends the update with -0.5 times the
\* velocity component it had before
C24_HalfBounce ==
  [][ \A g \in {"my", "other"} : \A c \in 1 .. 2 :
        (Clamped(g, c) /\ VelocityKept(g)) =>
          Group(g)'.player.velocity[c] = TruncDiv(-BeforeUpdate(g).velocity[c], 2) ]_vars

\* C24: a clamped axis ends the update at 16 or at 624, whichever wall was
\* passed, with -0.5 * 0.92 times the velocity component it had before: the
\* friction of the same update() comes after the bounce.  A player at x = 20
\* with velocity.x = -5 ends the update at x = 16 with velocity.x = 2.3
C24_BounceThenFriction ==
  [][ /\ \A g \in {"my", "other"} : \A c \in 1 .. 2 :
           Clamped(g, c) =>
             LET b == BeforeUpdate(g)
                 q == Group(g)'.player
             IN  /\ q.position[c] = IF b.position[c] + b.velocity[c] < 16 * Unit
                                     THEN 16 * Unit ELSE 624 * Unit
                 /\ VelocityKept(g) =>
                      q.velocity[c] = TruncDiv(TruncDiv(-b.velocity[c], 2) * 92, 100)
      /\ LET u == PlayerUpdate([NewPlayerActor(20, 320, TRUE)
                                  EXCEPT !.velocity = <<-5 * Unit, 0>>])
         IN  u.position = <<16 * Unit, 320 * Unit>>
               /\ u.velocity = <<(23 * Unit) \div 10, 0>> ]_vars

\* the thrust of a hit has driven the human into the lower wall, which it
\* leaves again
C24_Witness ==
  /\ lastTick.kind = "tick" /\ ~myGroup.player.null
  /\ myGroup.player.position[2] = 624 * Unit /\ myGroup.player.velocity[2] < 0

\* C25: at the end of every step each player that is not Null is within
\* 16 .. 624 on both axes
C25_InsideArena ==
  \A g \in {"my", "other"} : \A c \in 1 .. 2 :
    ~Group(g).player.null =>
      /\ Group(g).player.position[c] >= 16 * Unit
      /\ Group(g).player.position[c] <= 624 * Unit

\* thrust and flinch have driven the AI, DAMAGED, against the upper wall
C25_Witness ==
  /\ ~otherGroup.player.null /\ otherGroup.player.position[2] = 16 * Unit
  /\ lastTick.sinceHit.other >= 0 /\ otherGroup.player.state = "DAMAGED"

-----------------------------------------------------------------------------
(* Properties of the AI *)

\* where the opponent of the AI of `g` stands when the AI acts in this step:
\* white has been updated when black acts, black has not when white acts
EnemyAtPlan(g) ==
  IF g = "other" THEN myGroup'.player.position ELSE otherGroup.player.position

\* the AI of `g` executes the plan 'kill' in MOVE in this step, more than 30
\* ticks after its last recorded shot, the opponent farther than 400
KillGate(g) ==
  LET p == Group(g).player
      q == Group(g)'.player
  IN  /\ IsActiveTick /\ ~p.null /\ ~p.isHuman /\ ~q.null
      /\ BeforeUpdate(g).state = "MOVE" /\ q.aiPlanType = "kill"
      /\ p.aiFrameCounter - p.aiLastShotFrame > 30
      /\ DistanceSq(q.position, EnemyAtPlan(g)) > (400 * Unit) * (400 * Unit)

\* the AI of `g` executes the plan 'escape' in MOVE in this step, more than 15
\* ticks after its last recorded shot, and records a shot: canSafelyAttack
\* has returned true
EscapeGate(g) ==
  LET p == Group(g).player
      q == Group(g)'.player
  IN  /\ IsActiveTick /\ ~p.null /\ ~p.isHuman /\ ~q.null
      /\ BeforeUpdate(g).state = "MOVE" /\ q.aiPlanType = "escape"
      /\ p.aiFrameCounter - p.aiLastShotFrame > 15
      /\ q.aiLastShotFrame = p.aiFrameCounter

\* C26: an AI whose plan 'kill' or 'escape' passes its gate in a tick fires a
\* shortbow arrow in that tick
C26_PlanShot ==
  [][ \A g \in {"my", "other"} :
        (KillGate(g) \/ EscapeGate(g)) => Shots(g, "shortbow") # {} ]_vars

\* the AI of `g` is in DRAW_LONGBOW when it executes its plan in this step,
\* the opponent nearer than 400
LongbowCancel(g) ==
  LET p == Group(g).player
      q == Group(g)'.player
  IN  /\ IsActiveTick /\ ~p.null /\ ~p.isHuman /\ ~Group(Enemy(g)).player.null
      /\ BeforeUpdate(g).state = "DRAW_LONGBOW"
      /\ DistanceSq(PlayerUpdate(BeforeUpdate(g)).position, EnemyAtPlan(g))
           < (400 * Unit) * (400 * Unit)

\* C27: an AI in DRAW_LONGBOW that finds the opponent nearer than 400 when
\* it executes its plan is in MOVE when the tick ends (DAMAGED or Null if it
\* is hit in the same tick), and its group fires no longbow in that tick,
\* whatever the charge
C27_CancelFiresNothing ==
  [][ \A g \in {"my", "other"} :
        LongbowCancel(g) =>
          /\ Shots(g, "longbow") = {}
          /\ (~Group(g)'.player.null /\ ~HitNow(g)) => Group(g)'.player.state = "MOVE" ]_vars

\* one axis of addVelocity as C28 states it: the snap only against a velocity
\* of the opposite sign, the sum for a velocity of the same sign or zero
SnapOnlyOpposed(v, acc, limit) ==
  LET raw == IF acc # 0 /\ v # 0 /\ Sign(acc) # Sign(v) THEN acc * 3 ELSE v + acc
  IN  Max(-limit, Min(limit, raw))

\* C28: a human in MOVE who is not hit ends an Active tick with the velocity
\* that update() makes of the one addVelocity has set for the move intents of
\* the tick: per axis three times the acceleration if it is nonzero and
\* opposite in sign to the velocity, the sum otherwise, clamped to 10 on x
\* and to 7 on y
C28_SnapOnlyWhenOpposed ==
  [][ (IsActiveTick /\ lastTick'.kind = "tick"
         /\ ~myGroup.player.null /\ myGroup.player.isHuman
         /\ myGroup.player.state = "MOVE" /\ ~myGroup'.player.null /\ ~HitNow("my")) =>
        LET p == myGroup.player
            k == lastTick'.keys
            set == << SnapOnlyOpposed(p.velocity[1], k.h * Unit, 10 * Unit),
                      SnapOnlyOpposed(p.velocity[2], k.v * Unit, 7 * Unit) >>
        IN  myGroup'.player.velocity = PlayerUpdate([p EXCEPT !.velocity = set]).velocity ]_vars

\* the move intent of an AI on one axis: the dead zone of executeAIPlan
\* around the position, for a plan other than 'escape'
AxisIntent(target, x) ==
  IF target > x + 100 * Unit THEN 1
  ELSE IF target < x - 100 * Unit THEN -1 ELSE 0

\* C29: a player that draws a bow gets a quarter of the acceleration of MOVE
\* for its move intents.  A human that begins an Active tick in a draw state
\* has addVelocity(0.25 * h, 0.25 * v) applied ahead of update(); an AI that
\* ends the tick in DRAW_SHORTBOW has it applied after update(), for the
\* intents its target gives (players that are hit aside)
C29_QuarterForce ==
  [][ (IsActiveTick /\ lastTick'.kind = "tick") =>
        \A g \in {"my", "other"} :
          LET p == Group(g).player
              q == Group(g)'.player
              k == lastTick'.keys
          IN  (~p.null /\ ~q.null /\ ~HitNow(g)) =>
                /\ (p.isHuman /\ p.state \in {"DRAW_SHORTBOW", "DRAW_LONGBOW"}) =>
                     q.velocity =
                       PlayerUpdate(AddVelocity(p, TruncDiv(k.h * Unit, 4),
                                                TruncDiv(k.v * Unit, 4))).velocity
                /\ (~p.isHuman /\ q.state = "DRAW_SHORTBOW") =>
                     q.velocity =
                       AddVelocity(PlayerUpdate(BeforeUpdate(g)),
                                   TruncDiv(AxisIntent(q.aiMoveTarget[1], q.position[1]) * Unit, 4),
                                   TruncDiv(AxisIntent(q.aiMoveTarget[2], q.position[2]) * Unit, 4)
                                  ).velocity ]_vars

\* the opposing group as the AI of `g` finds it when it plans: the white
\* group has updated and acted before the black player acts, the black group
\* has not yet moved when the white player acts
EnemyGroupAtPlan(g) == IF g = "other" THEN myGroup' ELSE otherGroup

\* some opposing arrow is within squared distance 40000 of the AI of `g`
\* when it plans
ArrowNear(g) ==
  \E i \in DOMAIN EnemyGroupAtPlan(g).arrows :
    DistanceSq(Group(g)'.player.position, EnemyGroupAtPlan(g).arrows[i].position)
      < 40000 * Unit * Unit

\* the plan kinds the distance rules of updateAIPlan allow the AI of `g`
ByDistance(g) ==
  LET d == DistanceSq(Group(g)'.player.position, EnemyGroupAtPlan(g).player.position)
  IN  IF d < 100000 * Unit * Unit THEN {"move", "jab"}
      ELSE IF d > (400 * Unit) * (400 * Unit) THEN {"move", "jab", "kill"}
      ELSE {"move", "jab"}

\* C30: an AI keeps its plan kind through every Active tick that it begins
\* with a frame counter that is not a multiple of 10, but for the 'move' a
\* longbow cancel forces.  On a multiple of 10 (the opponent not hit in the
\* same tick, the AI not drawing a longbow) a DAMAGED AI plans 'escape'; an
\* AI that is not DAMAGED plans 'escape' when an opposing arrow is near and
\* a plan by the distance rules when none is, or 'kill' in both cases when
\* the opponent is DAMAGED
C30_PlanEveryTen ==
  [][ (IsActiveTick /\ lastTick'.kind = "tick") =>
        \A g \in {"my", "other"} :
          LET p == Group(g).player
              q == Group(g)'.player
              enemy == EnemyGroupAtPlan(g).player
          IN  (~p.null /\ ~p.isHuman /\ ~q.null /\ ~enemy.null) =>
                /\ p.aiFrameCounter % 10 # 0 =>
                     \/ q.aiPlanType = p.aiPlanType
                     \/ LongbowCancel(g) /\ q.aiPlanType = "move"
                /\ (p.aiFrameCounter % 10 = 0 /\ ~HitNow(Enemy(g))
                      /\ BeforeUpdate(g).state # "DRAW_LONGBOW") =>
                     q.aiPlanType \in
                       IF p.state = "DAMAGED" THEN {"escape"}
                       ELSE (IF enemy.state = "DAMAGED" THEN {"kill"} ELSE {})
                            \cup (IF ArrowNear(g) THEN {"escape"} ELSE ByDistance(g)) ]_vars

\* the black AI has planned 'escape' on a multiple of 10 because an arrow of
\* the human is near, while it is not DAMAGED and the human is not either
C30_Witness ==
  /\ lastTick.kind = "tick" /\ lastTick.phase = "PLAYING"
  /\ ~otherGroup.player.null /\ ~myGroup.player.null
  /\ otherGroup.player.aiFrameCounter % 10 = 1
  /\ otherGroup.player.aiPlanType = "escape"
  /\ otherGroup.player.state # "DAMAGED" /\ lastTick.sinceHit.other < 0
  /\ myGroup.player.state # "DAMAGED"
  /\ \E i \in DOMAIN myGroup.arrows :
       DistanceSq(otherGroup.player.position, myGroup.arrows[i].position)
         < 40000 * Unit * Unit

-----------------------------------------------------------------------------
(* Properties of the human's bow keys *)

\* C31: a human that begins an Active tick in MOVE gets exactly one arrow, a
\* shortbow arrow, added to myGroup when Z is just pressed, and does not enter
\* DRAW_SHORTBOW then; enters DRAW_SHORTBOW when Z has been held for more than
\* 6 ticks and X is not just pressed; and enters DRAW_LONGBOW when X is just
\* pressed, whatever Z is, with the charge counted from 0 (act() of the same
\* tick counts it to 1).  A human ends a tick in DRAW_LONGBOW that it did not
\* begin there only if it began it in MOVE with X just pressed: X held after
\* a press made in another state starts no draw.  (A hit later in the same
\* tick replaces the state.)
C31_BowKeys ==
  [][ (IsActiveTick /\ lastTick'.kind = "tick"
         /\ ~myGroup.player.null /\ myGroup.player.isHuman) =>
        LET p == myGroup.player
            q == myGroup'.player
            k == lastTick'.keys
            new == NewArrows("my")
            unhurt == ~q.null /\ ~HitNow("my")
        IN  /\ (p.state = "MOVE" /\ k.z = "just") =>
                 /\ Len(new) = 1 /\ ~new[1].lethal
                 /\ Cardinality(Shots("my", "shortbow")) = 1
                 /\ ~q.null => q.state # "DRAW_SHORTBOW"
            /\ (p.state = "MOVE" /\ k.z = "long" /\ k.x # "just" /\ unhurt) =>
                 q.state = "DRAW_SHORTBOW"
            /\ (p.state = "MOVE" /\ k.x = "just" /\ unhurt) =>
                 q.state = "DRAW_LONGBOW" /\ q.chargedFrameCount = 1
            /\ (~q.null /\ q.state = "DRAW_LONGBOW" /\ p.state # "DRAW_LONGBOW") =>
                 p.state = "MOVE" /\ k.x = "just" ]_vars

\* a human in MOVE has pressed Z and X between the same two ticks: the
\* shortbow arrow is fired and the longbow drawn
C31_Witness ==
  /\ lastTick.kind = "tick" /\ lastTick.phase = "PLAYING"
  /\ lastTick.keys.z = "just" /\ lastTick.keys.x = "just"
  /\ ~myGroup.player.null /\ myGroup.player.isHuman
  /\ myGroup.player.state = "DRAW_LONGBOW" /\ myGroup.player.chargedFrameCount = 1
  /\ \E i \in DOMAIN lastTick.events :
       lastTick.events[i].type = "shortbow" /\ lastTick.events[i].group = "my"

\* C32: when a Z press ends (keyReleased finds the key pressed), exactly one
\* draw() call since it began has found isZJustPressed() true, however the
\* key events and the draw() calls interleave; and no draw() call leaves
\* isZJustPressed() and isZLongPressed() both true
C32_OneJustTickPerPress ==
  [][ /\ (lastTick'.kind = "keyUp" /\ keyInput.isZPressed /\ ~keyInput'.isZPressed) =>
           zJustTicks = 1
      /\ ~(IsZJustPressed(keyInput') /\ IsZLongPressed(keyInput')) ]_vars

-----------------------------------------------------------------------------
(* Properties of the arrows of the AI *)

\* C33: in one tick the group of an AI gets at most one shortbow arrow, and
\* a shortbow arrow only if the last one it got in this match is at least 8
\* frames old
C33_AICadence ==
  [][ lastTick'.kind = "tick" =>
        \A g \in {"my", "other"} :
          (~Group(g).player.null /\ ~Group(g).player.isHuman) =>
            /\ Cardinality(Shots(g, "shortbow")) <= 1
            /\ (Shots(g, "shortbow") # {} /\ lastTick.shotFrame[g] # 0) =>
                 frameCount' - lastTick.shotFrame[g] >= 8 ]_vars

-----------------------------------------------------------------------------
(* Properties of the arrows and the players they hit *)

\* the arrows the events of kind `type` of group `g` in this step announce
Fired(g, type) ==
  UNION { lastTick'.events[i].arrow .. lastTick'.events[i].other : i \in Shots(g, type) }

C36_ConsumedCannotHit ==
  [][ lastTick'.kind = "tick" =>
        \A g \in {"my", "other"} : \A i \in Hits(g)' :
          /\ \A j \in Pairs' :
               lastTick'.events[i].arrow
                 \notin {lastTick'.events[j].arrow, lastTick'.events[j].other}
          /\ \A n \in DOMAIN Group(Enemy(g))'.arrows :
               Group(Enemy(g))'.arrows[n].id = lastTick'.events[i].arrow =>
                 ~Outside(Group(Enemy(g))'.arrows[n]) ]_vars

-----------------------------------------------------------------------------
(* Properties of the keyboard in the demo match *)

\* C37: in a tick of the demo match in which white is an AI, the white group
\* comes out as it can come out of the same tick with no key pressed: no key
\* changes the velocity, the aim, the state or the charge of the white
\* player, and no key adds an arrow to myGroup
C37_DemoIgnoresKeys ==
  [][ (lastTick'.kind = "tick" /\ isDemoMode /\ gameState = "PLAYING"
         /\ ~myGroup.player.null /\ ~myGroup.player.isHuman) =>
        \E o \in Run(NoKeys) : myGroup' = o.w.my ]_vars

-----------------------------------------------------------------------------
(* Properties of the life of an arrow *)

\* the arrow `id` is in the collection of one of the groups
Held(id) == id \in Ids(myGroup.arrows) \cup Ids(otherGroup.arrows)

-----------------------------------------------------------------------------
(* Properties of the shots an AI records *)

\* C39: an AI whose aiLastShotFrame changes in a tick has exactly one
\* shortbow arrow added to its group in that tick
C39_RecordedShotFires ==
  [][ \A g \in {"my", "other"} :
        LET p == Group(g).player
            q == Group(g)'.player
        IN  (lastTick'.kind = "tick" /\ IsActiveTick /\ ~p.null /\ ~p.isHuman
               /\ ~q.null /\ q.aiLastShotFrame # p.aiLastShotFrame) =>
              Cardinality(Shots(g, "shortbow")) = 1 ]_vars

====
